---- MODULE Spec2Model ----
(***************************************************************************)
(* Workstream orchestration engine of task-manager:                        *)
(*   backend/app/utils/scheduler.py        WorkstreamScheduler,            *)
(*                                         ResourceManager,                *)
(*                                         ConflictResolver                *)
(*   backend/app/services/WorkstreamOrchestrator.py  WorkstreamOrchestrator*)
(* One orchestration of MaxItems workstreams is followed from the request  *)
(* to the end of its driver thread, with the caller thread (pause, resume, *)
(* stop, shutdown), the driver thread and one worker per admitted          *)
(* workstream interleaved statement group by statement group.  Requests    *)
(* leave assigned_agent_id at its default None, so the worker's worktree   *)
(* branch (WorkstreamOrchestrator.py:345, :382) is not taken, and the      *)
(* caller does not call cleanup_completed_orchestrations.  Workers of      *)
(* workstreams with an agent, services/WorktreeManager.py and              *)
(* api/endpoints/workstreams.py have specifications of their own, and so   *)
(* have the plan's estimates, the calls of pause, resume and stop with     *)
(* their returned values, and stop racing the driver on the tables.        *)
(***************************************************************************)
EXTENDS Integers, Sequences, FiniteSets, TLC

\* ---------------------------------------------------------------- bounds
MaxItems == 3
MaxEdges == 1
MaxReqs == 1
MaxRes == 1
MaxConc == 2
MaxPlanEdges == 3
MaxQueue == 2
MaxPlanReqs == 3
MaxAgents == 2
MaxStored == 2
MaxClock == 2
MaxListed == 3
MaxDuration == 2

\* ------------------------------------------------------ program constants
PoolSize == 10
DefaultPriority == 5
DefaultQueuePriority == 5
\* HTTP status codes of the workstreams endpoints
HttpOk == 200
HttpBadRequest == 400
HttpNotFound == 404

Ids == 1..MaxItems
\* an id that names no workstream of the request
Ghost == MaxItems + 1
Rids == 1..MaxRes
None == [none |-> TRUE]

\* WorkstreamStatus, ExecutionPhase, OrchestrationStatus
WorkstreamStatus == {"pending", "in_progress", "blocked", "completed", "failed"}
ExecutionPhase == {"scheduled", "resource_allocated", "starting", "running",
                   "completing", "completed", "failed", "rolled_back"}
OrchestrationStatus == {"initializing", "scheduling", "executing", "paused",
                        "completed", "failed", "rolling_back"}
TerminalPhase == {"completed", "failed", "rolled_back"}
TerminalStatus == {"completed", "failed"}

\* WorkstreamDependency: source_workstream_id, target_workstream_id
Edge == [src : Ids, tgt : Ids \cup {Ghost}]
\* ResourceRequirement: resource_id, is_exclusive
Requirement == [rid : Rids, excl : BOOLEAN]

\* ------------------------------------------------------------- sequences
Range(s) == {s[k] : k \in 1..Len(s)}

Index(s, x) == CHOOSE k \in 1..Len(s) : s[k] = x /\ \A j \in 1..(k-1) : s[j] # x

Perms(S) == {p \in [1..Cardinality(S) -> S] : \A x \in S : \E k \in DOMAIN p : p[k] = x}

\* the members of S in the order in which seq lists them
InOrder(S, seq) == LET Keep(x) == x \in S IN SelectSeq(seq, Keep)

SeqsUpTo(S, n) == UNION {[1..k -> S] : k \in 0..n}

\* ====================================================== WorkstreamScheduler
AllEdges(ws) == UNION {ws[i].dependencies : i \in Ids}

\* _build_dependency_graph: dependency_graph[source] holds the targets,
\* reverse_dependencies[target] the sources; an edge with an endpoint outside
\* the request is dropped.
dependency_graph(ws) ==
    [s \in Ids |-> {t \in Ids : \E e \in AllEdges(ws) : e.src = s /\ e.tgt = t}]

reverse_dependencies(ws) ==
    [t \in Ids |-> {s \in Ids : \E e \in AllEdges(ws) : e.src = s /\ e.tgt = t}]

\* keys of the dependency_graph dict: the sources of the kept edges
GraphKeys(ws) == {s \in Ids : dependency_graph(ws)[s] # {}}

\* _detect_cycles: depth-first search with a recursion stack.  iter is the
\* order in which Python iterates the dict keys and the neighbour sets.
RECURSIVE dfs(_, _, _, _, _)
RECURSIVE dfsEach(_, _, _, _, _)
\* dfs with the whole path reported, not the part from the revisited node on
dfs_whole_path(G, iter, node, path, st) ==
    IF node \in st.rec_stack
    THEN [st EXCEPT !.cycles = Append(@, path \o <<node>>)]
    ELSE IF node \in st.visited
    THEN st
    ELSE LET st1 == [st EXCEPT !.visited = @ \cup {node},
                               !.rec_stack = @ \cup {node}]
             st2 == dfsEach(G, iter, InOrder(G[node], iter), Append(path, node), st1)
         IN  [st2 EXCEPT !.rec_stack = @ \ {node}]

dfs(G, iter, node, path, st) ==
    IF node \in st.rec_stack
    THEN [st EXCEPT !.cycles =
             Append(@, SubSeq(path, Index(path, node), Len(path)) \o <<node>>)]
    ELSE IF node \in st.visited
    THEN st
    ELSE LET st1 == [st EXCEPT !.visited = @ \cup {node},
                               !.rec_stack = @ \cup {node}]
             st2 == dfsEach(G, iter, InOrder(G[node], iter), Append(path, node), st1)
         IN  [st2 EXCEPT !.rec_stack = @ \ {node}]

dfsEach(G, iter, todo, path, st) ==
    IF todo = <<>> THEN st
    ELSE dfsEach(G, iter, Tail(todo), path, dfs(G, iter, Head(todo), path, st))

RECURSIVE dfsRoots(_, _, _, _)
dfsRoots(G, iter, roots, st) ==
    IF roots = <<>> THEN st
    ELSE dfsRoots(G, iter, Tail(roots),
                  IF Head(roots) \in st.visited THEN st
                  ELSE dfs(G, iter, Head(roots), <<>>, st))

_detect_cycles(ws, iter) ==
    dfsRoots(dependency_graph(ws), iter, InOrder(GraphKeys(ws), iter),
             [visited |-> {}, rec_stack |-> {}, cycles |-> <<>>]).cycles

\* heapq.heappop on (-priority, id) tuples: the largest priority number
\* first, the smallest id among equals.
HeapPop(ready, ws) ==
    CHOOSE w \in ready : \A v \in ready :
        \/ ws[w].priority > ws[v].priority
        \/ ws[w].priority = ws[v].priority /\ w <= v

\* _calculate_execution_order: Kahn's algorithm with in-degree
\* len(reverse_dependencies[id]) and propagation along dependency_graph.
RECURSIVE Kahn(_, _, _, _)
Kahn(ws, ready, in_degrees, execution_order) ==
    IF ready = {} THEN execution_order
    ELSE LET w    == HeapPop(ready, ws)
             deg1 == [d \in Ids |-> IF d \in dependency_graph(ws)[w]
                                    THEN in_degrees[d] - 1 ELSE in_degrees[d]]
             zero == {d \in dependency_graph(ws)[w] : deg1[d] = 0}
         IN  Kahn(ws, (ready \ {w}) \cup zero, deg1, Append(execution_order, w))

\* _calculate_execution_order that never releases a workstream: only those
\* that are ready at the start are listed
_calculate_execution_order_without_release(ws) ==
    Kahn(ws, {i \in Ids : reverse_dependencies(ws)[i] = {}},
         [i \in Ids |-> MaxItems + 1], <<>>)

_calculate_execution_order(ws) ==
    LET in_degrees == [i \in Ids |-> Cardinality(reverse_dependencies(ws)[i])]
    IN  Kahn(ws, {i \in Ids : in_degrees[i] = 0}, in_degrees, <<>>)

\* resource_usage[rid]: the (workstream, is_exclusive) pairs in request order
RECURSIVE UsagesFrom(_, _, _)
UsagesFrom(ws, rid, i) ==
    IF i > MaxItems THEN <<>>
    ELSE LET Mine(q) == q.rid = rid
             mine == SelectSeq(ws[i].required_resources, Mine)
         IN  [k \in 1..Len(mine) |-> [ws |-> i, excl |-> mine[k].excl]]
             \o UsagesFrom(ws, rid, i + 1)

resource_usage(ws, rid) == UsagesFrom(ws, rid, 1)

\* _identify_resource_conflicts, one resource: None or the ResourceConflict
ConflictOn(ws, rid) ==
    LET usages == resource_usage(ws, rid)
        IsExcl(u) == u.excl
        excl == SelectSeq(usages, IsExcl)
    IN  IF Len(usages) > 1 /\ Len(excl) > 1
        THEN [resource_id |-> rid, conflict_type |-> "exclusive_access",
              resolution_strategy |-> "priority_based",
              conflicting_workstreams |-> [k \in 1..Len(excl) |-> excl[k].ws]]
        ELSE IF Len(usages) > 1 /\ Len(excl) = 1
        THEN [resource_id |-> rid, conflict_type |-> "exclusive_vs_shared",
              resolution_strategy |-> "priority_based",
              conflicting_workstreams |-> [k \in 1..Len(usages) |-> usages[k].ws]]
        ELSE None

RECURSIVE ConflictsFrom(_, _)
ConflictsFrom(ws, rid) ==
    IF rid > MaxRes THEN <<>>
    ELSE (IF ConflictOn(ws, rid) = None THEN <<>> ELSE <<ConflictOn(ws, rid)>>)
         \o ConflictsFrom(ws, rid + 1)

_identify_resource_conflicts(ws) == ConflictsFrom(ws, 1)

\* build_execution_plan: raises ValueError on a cycle, else the plan
build_execution_plan(ws, iter) ==
    LET cycles == _detect_cycles(ws, iter)
    IN  IF cycles # <<>>
        THEN [raised |-> TRUE, cycles |-> cycles,
              execution_order |-> <<>>, resource_conflicts |-> <<>>]
        ELSE [raised |-> FALSE, cycles |-> <<>>,
              execution_order |-> _calculate_execution_order(ws),
              resource_conflicts |-> _identify_resource_conflicts(ws)]

\* Optional[int] estimated_duration: None or a number of minutes;
\* "estimated_duration or 0" takes None (and 0) as 0
Minutes(d) == IF d = None THEN 0 ELSE d.minutes

Max(S) == CHOOSE x \in S : \A y \in S : y <= x

RECURSIVE SumMinutes(_, _)
SumMinutes(ws, S) ==
    IF S = {} THEN 0
    ELSE LET i == CHOOSE x \in S : TRUE
         IN  Minutes(ws[i].estimated_duration) + SumMinutes(ws, S \ {i})

\* the durations of all workstreams added up, as for a sequential run
_estimate_total_duration_sequential(ws, execution_order) ==
    SumMinutes(ws, Range(execution_order))

\* _estimate_total_duration, first loop: earliest_start of the workstreams
\* of execution_order, each from the entries of reverse_dependencies that
\* already have a start time
RECURSIVE EarliestStart(_, _, _, _)
EarliestStart(ws, execution_order, k, earliest_start) ==
    IF k > Len(execution_order) THEN earliest_start
    ELSE LET w    == execution_order[k]
             deps == reverse_dependencies(ws)[w] \cap DOMAIN earliest_start
             latest_dependency_completion ==
                 Max({0} \cup {earliest_start[d] + Minutes(ws[d].estimated_duration) :
                                  d \in deps})
         IN  EarliestStart(ws, execution_order, k + 1,
                 [x \in DOMAIN earliest_start \cup {w} |->
                     IF x = w THEN latest_dependency_completion
                     ELSE earliest_start[x]])

\* second loop: the latest completion time
_estimate_total_duration(ws, execution_order) ==
    LET earliest_start == EarliestStart(ws, execution_order, 1, <<>>)
    IN  Max({0} \cup {earliest_start[w] + Minutes(ws[w].estimated_duration) :
                         w \in Range(execution_order)})

\* _identify_parallelization_opportunities: the pairs [ws1.id, ws2.id] of
\* the request, in request order, with no edge of dependency_graph between
\* them and no common resource that one of them requires exclusively
CanParallelize(ws, i, j) ==
    /\ i \notin dependency_graph(ws)[j]
    /\ j \notin dependency_graph(ws)[i]
    /\ ~\E a \in 1..Len(ws[i].required_resources) :
          \E b \in 1..Len(ws[j].required_resources) :
             /\ ws[i].required_resources[a].rid = ws[j].required_resources[b].rid
             /\ (ws[i].required_resources[a].excl \/ ws[j].required_resources[b].excl)

RECURSIVE PairsFrom(_, _, _)
PairsFrom(ws, i, j) ==
    IF i > MaxItems THEN <<>>
    ELSE IF j > MaxItems THEN PairsFrom(ws, i + 1, i + 2)
    ELSE (IF CanParallelize(ws, i, j) THEN <<<<i, j>>>> ELSE <<>>)
         \o PairsFrom(ws, i, j + 1)

_identify_parallelization_opportunities(ws) == PairsFrom(ws, 1, 2)

\* ========================================================= ConflictResolver
\* _resolve_priority_based: the first listed workstream with the strictly
\* lowest priority number; <<>> stands for a selection of None
RECURSIVE PriorityScan(_, _, _)
PriorityScan(ws, list, best) ==
    IF list = <<>> THEN best
    ELSE IF best = <<>> \/ ws[Head(list)].priority < ws[best[1]].priority
         THEN PriorityScan(ws, Tail(list), <<Head(list)>>)
         ELSE PriorityScan(ws, Tail(list), best)

_resolve_priority_based(conflict, ws) ==
    PriorityScan(ws, conflict.conflicting_workstreams, <<>>)

\* _resolve_fifo, _resolve_round_robin: conflicting_workstreams[0]
_resolve_fifo(conflict, ws) == <<conflict.conflicting_workstreams[1]>>

_resolve_round_robin(conflict, ws) == <<conflict.conflicting_workstreams[1]>>

\* _resolve_lifo selecting the first listed workstream
_resolve_lifo_first_listed(conflict, ws) == <<conflict.conflicting_workstreams[1]>>

\* _resolve_lifo: conflicting_workstreams[-1]
_resolve_lifo(conflict, ws) ==
    <<conflict.conflicting_workstreams[Len(conflict.conflicting_workstreams)]>>

\* resolve_conflict: the strategy is conflict.resolution_strategy, which
\* _identify_resource_conflicts leaves at its default PRIORITY_BASED; a
\* strategy without resolver (MANUAL) is replaced by PRIORITY_BASED
resolve_conflict(conflict, ws) ==
    CASE conflict.resolution_strategy = "fifo" -> _resolve_fifo(conflict, ws)
      [] conflict.resolution_strategy = "lifo" -> _resolve_lifo(conflict, ws)
      [] conflict.resolution_strategy = "round_robin" -> _resolve_round_robin(conflict, ws)
      [] OTHER -> _resolve_priority_based(conflict, ws)

\* ========================================================== ResourceManager
\* _is_resource_available; alloc is allocated_resources (one entry per
\* resource id), cap is resource_capacity
_is_resource_available(alloc, cap, rid, is_exclusive) ==
    IF alloc[rid] = None THEN TRUE
    ELSE IF alloc[rid].is_exclusive THEN FALSE
    ELSE IF is_exclusive THEN FALSE
    ELSE IF cap[rid] # None
            /\ Cardinality({r \in Rids : r = rid /\ alloc[r] # None}) >= cap[rid].limit
         THEN FALSE
    ELSE TRUE

\* allocate_resource: the table entry is overwritten on success, the request
\* is queued (with _get_workstream_priority's constant) on failure
allocate_resource(rm, rid, wid, is_exclusive) ==
    IF _is_resource_available(rm.allocated_resources, rm.resource_capacity, rid, is_exclusive)
    THEN [ok |-> TRUE,
          rm |-> [rm EXCEPT !.allocated_resources[rid] =
                      [workstream_id |-> wid, is_exclusive |-> is_exclusive]]]
    ELSE [ok |-> FALSE,
          rm |-> [rm EXCEPT !.waiting_workstreams[rid] =
                      Append(@, [workstream_id |-> wid,
                                 priority |-> DefaultQueuePriority])]]

\* _process_waiting_workstreams: logs each waiter, then clears the queue
_process_waiting_workstreams(rm, rid) ==
    [rm EXCEPT !.waiting_workstreams[rid] = <<>>]

\* release_resource without the test of the holder
release_resource_of_any_holder(rm, rid, wid) ==
    IF rm.allocated_resources[rid] # None
    THEN [ok |-> TRUE,
          rm |-> _process_waiting_workstreams(
                     [rm EXCEPT !.allocated_resources[rid] = None], rid)]
    ELSE [ok |-> FALSE, rm |-> rm]

\* release_resource
release_resource(rm, rid, wid) ==
    IF rm.allocated_resources[rid] # None
       /\ rm.allocated_resources[rid].workstream_id = wid
    THEN [ok |-> TRUE,
          rm |-> _process_waiting_workstreams(
                     [rm EXCEPT !.allocated_resources[rid] = None], rid)]
    ELSE [ok |-> FALSE, rm |-> rm]

\* ========================================================== WorktreeManager
\* awt is active_worktrees, as the set of workstream ids it has an entry
\* for.  git is what the git commands of the call do: every command of
\* create, commit and merge returns 0 (TRUE) or one of them does not
\* (FALSE); for cleanup see GitCleanup.
\* create_worktree_for_workstream: the path, or None (FALSE)
create_worktree_for_workstream(awt, wid, git) ==
    IF git THEN [path |-> TRUE, awt |-> awt \cup {wid}]
    ELSE [path |-> FALSE, awt |-> awt]

\* commit_worktree_changes
commit_worktree_changes(awt, wid, git) ==
    IF wid \notin awt THEN FALSE ELSE git

\* merge_worktree_to_main
merge_worktree_to_main(awt, wid, git) ==
    IF wid \notin awt THEN FALSE ELSE git

\* "worktree remove" succeeds, or fails and "worktree remove --force"
\* succeeds, or both fail; the result of "branch -D" is only logged
GitCleanup == {"removed", "forced", "refused"}

\* cleanup_worktree that reports a missing entry as a failure
cleanup_worktree_missing_is_failure(awt, wid, git) ==
    IF wid \notin awt THEN [ok |-> FALSE, awt |-> awt]
    ELSE IF git = "refused" THEN [ok |-> FALSE, awt |-> awt]
    ELSE [ok |-> TRUE, awt |-> awt \ {wid}]

\* cleanup_worktree
cleanup_worktree(awt, wid, git) ==
    IF wid \notin awt THEN [ok |-> TRUE, awt |-> awt]
    ELSE IF git = "refused" THEN [ok |-> FALSE, awt |-> awt]
    ELSE [ok |-> TRUE, awt |-> awt \ {wid}]

\* ==================================================== WorkstreamOrchestrator
VARIABLES
    workstreams,            \* request.workstreams: priority, dependencies,
                            \*   required_resources, status
    config,                 \* OrchestrationConfig
    iter,                   \* Python's iteration order of the id sets
    started,                \* outcome of start_orchestration
    active,                 \* the orchestration is in active_orchestrations
    status,                 \* orchestration.status
    phase,                  \* execution_contexts[id].phase
    resource_allocations,   \* orchestration.resource_allocations
    resource_manager,       \* the ResourceManager's three tables
    metrics,                \* orchestration.metrics
    errors,                 \* len(orchestration.errors)
    execution_plan,         \* the plan handed to the driver thread
    dpc,                    \* the driver thread's position
    idx,                    \* position of the for loop in execution_order
    running_workstreams,    \* locals of _execute_workstreams
    completed_workstreams,
    failed_workstreams,
    wpc,                    \* each worker's position in _execute_single_workstream
    future,                 \* context.metadata["future"]: its result once done
    pool_shutdown,          \* executor.shutdown() has been called
    stopped,                \* stop_orchestration has returned True
    granted,                \* grants not yet given back (ResourceManager history)
    active_worktrees,       \* WorktreeManager.active_worktrees: the ids recorded
    metadata,               \* execution_contexts[id].metadata has a worktree_path
    merge_success,          \* _execute_single_workstream's local merge_success
    workstreams_db,         \* workstreams_db of the workstreams endpoints
    returned,               \* what the last direct call of a service returned
    frames                  \* locals of a stop_orchestration call and of the
                            \*   driver's _wait_for_workstream_completion

vars == <<workstreams, config, iter, started, active, status, phase,
          resource_allocations, resource_manager, metrics, errors,
          execution_plan, dpc, idx, running_workstreams, completed_workstreams,
          failed_workstreams, wpc, future, pool_shutdown, stopped, granted,
          active_worktrees, metadata, merge_success, workstreams_db, returned,
          frames>>

requestVars == <<workstreams, config, iter>>
driverVars == <<dpc, idx, running_workstreams, completed_workstreams,
                failed_workstreams, execution_plan>>
workerVars == <<wpc, future>>
tableVars == <<resource_allocations, resource_manager, granted>>
\* the WorktreeManager, the workstreams endpoints and the direct calls, which
\* a run without assigned agents never touches
serviceVars == <<active_worktrees, metadata, merge_success, workstreams_db, returned,
                 frames>>

\* _release_workstream_resources
RECURSIVE ReleaseOwnFrom(_, _, _, _)
ReleaseOwnFrom(wid, ra, rm, rid) ==
    IF rid > MaxRes THEN [ra |-> ra, rm |-> rm]
    ELSE IF ra[rid] # None /\ ra[rid].workstream_id = wid
         THEN ReleaseOwnFrom(wid, [ra EXCEPT ![rid] = None],
                             release_resource(rm, rid, wid).rm, rid + 1)
         ELSE ReleaseOwnFrom(wid, ra, rm, rid + 1)

\* _release_workstream_resources releasing nothing
_release_nothing(wid, ra, rm) == [ra |-> ra, rm |-> rm]

_release_workstream_resources(wid, ra, rm) == ReleaseOwnFrom(wid, ra, rm, 1)

\* _release_all_resources
RECURSIVE ReleaseAllFrom(_, _, _)
ReleaseAllFrom(ra, rm, rid) ==
    IF rid > MaxRes THEN [ra |-> ra, rm |-> rm]
    ELSE IF ra[rid] # None
         THEN ReleaseAllFrom([ra EXCEPT ![rid] = None],
                             release_resource(rm, rid, ra[rid].workstream_id).rm, rid + 1)
         ELSE ReleaseAllFrom(ra, rm, rid + 1)

_release_all_resources(ra, rm) == ReleaseAllFrom(ra, rm, 1)

\* _allocate_resources: the requirements in list order; the first refusal
\* releases what the orchestration table records for the workstream
RECURSIVE AllocateFrom(_, _, _, _)
AllocateFrom(wid, reqs, ra, rm) ==
    IF reqs = <<>> THEN [ok |-> TRUE, ra |-> ra, rm |-> rm]
    ELSE LET q == Head(reqs)
             a == allocate_resource(rm, q.rid, wid, q.excl)
         IN  IF ~a.ok
             THEN LET rel == _release_workstream_resources(wid, ra, a.rm)
                  IN  [ok |-> FALSE, ra |-> rel.ra, rm |-> rel.rm]
             ELSE AllocateFrom(wid, Tail(reqs),
                               [ra EXCEPT ![q.rid] = [workstream_id |-> wid,
                                                      is_exclusive |-> q.excl]],
                               a.rm)

_allocate_resources(wid, ws, ra, rm) ==
    AllocateFrom(wid, ws[wid].required_resources, ra, rm)

\* _can_start_workstream without the dependency test
_can_start_workstream_unchecked(wid, ws, completed) == TRUE

\* _can_start_workstream: every dependency's target is in the driver's
\* completed set
_can_start_workstream(wid, ws, completed) ==
    \A e \in ws[wid].dependencies : e.tgt \in completed

\* _update_orchestration_metrics: a fresh OrchestrationMetrics
_update_orchestration_metrics(ws) ==
    [completed_workstreams   |-> Cardinality({i \in Ids : ws[i].status = "completed"}),
     failed_workstreams      |-> Cardinality({i \in Ids : ws[i].status = "failed"}),
     in_progress_workstreams |-> Cardinality({i \in Ids : ws[i].status = "in_progress"}),
     blocked_workstreams     |-> Cardinality({i \in Ids : ws[i].status = "blocked"}),
     rollback_count          |-> 0]

\* _check_rollback_conditions: failed/total >= rollback_threshold, the
\* threshold in percent
RollbackDue(failed) ==
    Cardinality(failed) * 100 >= config.rollback_threshold * MaxItems

\* ----------------------------------------------------------------- requests
\* the subsets of S with at most n members
RECURSIVE SubsetsUpTo(_, _)
SubsetsUpTo(S, n) ==
    IF n = 0 THEN {{}}
    ELSE LET prev == SubsetsUpTo(S, n - 1)
         IN  prev \cup {T \cup {x} : T \in prev, x \in S}

\* the dependency lists of a request: at most MaxEdges edges in all
DependencyChoices ==
    {[i \in Ids |-> {oe[2] : oe \in {x \in S : x[1] = i}}] :
        S \in SubsetsUpTo(Ids \X Edge, MaxEdges)}

\* the requirement lists of a request: at most MaxReqs requirements in all
RequirementChoices ==
    {[i \in Ids |->
        LET Mine(x) == x[1] = i
            mine == SelectSeq(l, Mine)
        IN  [k \in 1..Len(mine) |-> mine[k][2]]] :
        l \in SeqsUpTo(Ids \X Requirement, MaxReqs)}

ThresholdChoices == {50}

NoTables ==
    [allocated_resources |-> [r \in Rids |-> None],
     waiting_workstreams |-> [r \in Rids |-> <<>>],
     resource_capacity   |-> [r \in Rids |-> None]]

NoMetrics ==
    [completed_workstreams |-> 0, failed_workstreams |-> 0,
     in_progress_workstreams |-> 0, blocked_workstreams |-> 0,
     rollback_count |-> 0]

NoPlan == [raised |-> FALSE, cycles |-> <<>>, execution_order |-> <<>>,
           resource_conflicts |-> <<>>]

\* the state after WorkstreamOrchestrator.__init__, with a request at hand
InitRun ==
    /\ status = "initializing"
    /\ phase = [i \in Ids |-> "scheduled"]
    /\ started = "no"
    /\ active = FALSE
    /\ resource_allocations = [r \in Rids |-> None]
    /\ resource_manager = NoTables
    /\ metrics = NoMetrics
    /\ errors = 0
    /\ execution_plan = NoPlan
    /\ dpc = "none"
    /\ idx = 1
    /\ running_workstreams = {}
    /\ completed_workstreams = {}
    /\ failed_workstreams = {}
    /\ wpc = [i \in Ids |-> "none"]
    /\ future = [i \in Ids |-> "none"]
    /\ pool_shutdown = FALSE
    /\ stopped = FALSE
    /\ granted = {}

\* no stop_orchestration call and no poll of the driver is under way
NoFrames ==
    [caller |-> [pc |-> "idle", items |-> <<>>],
     driver |-> [todo |-> <<>>, resources_to_release |-> <<>>,
                 finished |-> {}, from |-> "none"]]

\* no worktree is recorded, no endpoint has been called
NoServices ==
    /\ active_worktrees = {}
    /\ metadata = [i \in Ids |-> FALSE]
    /\ merge_success = [i \in Ids |-> "none"]
    /\ workstreams_db = <<>>
    /\ returned = None
    /\ frames = NoFrames

ConfigChoices ==
    [max_concurrent_workstreams : 1..MaxConc,
     enable_auto_rollback : BOOLEAN,
     rollback_threshold : ThresholdChoices]

Init ==
    /\ \E p \in [Ids -> {DefaultPriority}], d \in DependencyChoices, r \in RequirementChoices :
          /\ (\E i \in Ids : d[i] # {}) => (\A i \in Ids : r[i] = <<>>)
          /\ workstreams = [i \in Ids |-> [priority |-> p[i], dependencies |-> d[i],
                                           required_resources |-> r[i],
                                           status |-> "pending"]]
    /\ config \in ConfigChoices
    /\ iter = [k \in 1..MaxItems |-> k]
    /\ InitRun
    /\ NoServices

\* ------------------------------------------------------------ caller thread
\* start_orchestration with step 5 (store the orchestration) and step 6
\* (start the driver) moved ahead of step 3 (build the plan)
start_orchestration_store_first ==
    /\ started = "no"
    /\ active' = TRUE
    /\ dpc' = "begin"
    /\ LET plan == build_execution_plan(workstreams, iter)
       IN  IF plan.raised
           THEN /\ started' = "raised"
                /\ UNCHANGED execution_plan
           ELSE /\ started' = "ok"
                /\ execution_plan' = plan
    /\ UNCHANGED <<serviceVars, requestVars, status, phase, tableVars, metrics, errors, idx,
                   running_workstreams, completed_workstreams, failed_workstreams,
                   workerVars, pool_shutdown, stopped>>

\* start_orchestration: the plan is built before the orchestration is stored
\* and before the driver thread is started; a cycle raises out of it
start_orchestration ==
    /\ started = "no"
    /\ LET plan == build_execution_plan(workstreams, iter)
       IN  IF plan.raised
           THEN /\ started' = "raised"
                /\ UNCHANGED <<active, dpc, execution_plan>>
           ELSE /\ started' = "ok"
                /\ active' = TRUE
                /\ execution_plan' = plan
                /\ dpc' = "begin"
    /\ UNCHANGED <<serviceVars, requestVars, status, phase, tableVars, metrics, errors, idx,
                   running_workstreams, completed_workstreams, failed_workstreams,
                   workerVars, pool_shutdown, stopped>>

\* pause_orchestration
pause_orchestration ==
    /\ IF active /\ status \in {"executing", "scheduling"}
       THEN status' = "paused"
       ELSE UNCHANGED status
    /\ UNCHANGED <<serviceVars, requestVars, started, active, phase, tableVars, metrics, errors,
                   driverVars, workerVars, pool_shutdown, stopped>>

\* resume_orchestration
resume_orchestration ==
    /\ IF active /\ status = "paused"
       THEN status' = "executing"
       ELSE UNCHANGED status
    /\ UNCHANGED <<serviceVars, requestVars, started, active, phase, tableVars, metrics, errors,
                   driverVars, workerVars, pool_shutdown, stopped>>

\* stop_orchestration: FAILED, then _release_all_resources
StopEffect ==
    IF active
    THEN LET rel == _release_all_resources(resource_allocations, resource_manager)
         IN  /\ status' = "failed"
             /\ resource_allocations' = rel.ra
             /\ resource_manager' = rel.rm
             /\ stopped' = TRUE
    ELSE UNCHANGED <<status, resource_allocations, resource_manager, stopped>>

stop_orchestration ==
    /\ StopEffect
    /\ UNCHANGED <<serviceVars, requestVars, started, active, phase, granted, metrics, errors,
                   driverVars, workerVars, pool_shutdown>>

\* shutdown: stop_orchestration for every active orchestration, then
\* executor.shutdown
shutdown ==
    /\ ~pool_shutdown
    /\ StopEffect
    /\ pool_shutdown' = TRUE
    /\ UNCHANGED <<serviceVars, requestVars, started, active, phase, granted, metrics, errors,
                   driverVars, workerVars>>

\* ------------------------------------------------------------ driver thread
\* _execute_orchestration, line 218
DriverBegin ==
    /\ dpc = "begin"
    /\ status' = "scheduling"
    /\ dpc' = "resolve"
    /\ UNCHANGED <<serviceVars, requestVars, started, active, phase, tableVars, metrics, errors,
                   idx, running_workstreams, completed_workstreams,
                   failed_workstreams, execution_plan, workerVars, pool_shutdown,
                   stopped>>

\* _resolve_conflicts: every listed workstream but the selected one becomes
\* BLOCKED
RECURSIVE BlockLosers(_, _)
BlockLosers(ws, conflicts) ==
    IF conflicts = <<>> THEN ws
    ELSE LET c   == Head(conflicts)
             sel == resolve_conflict(c, ws)
             ws1 == IF sel = <<>> THEN ws
                    ELSE [i \in Ids |->
                            IF i \in Range(c.conflicting_workstreams) /\ i # sel[1]
                            THEN [ws[i] EXCEPT !.status = "blocked"]
                            ELSE ws[i]]
         IN  BlockLosers(ws1, Tail(conflicts))

_resolve_conflicts(ws, conflicts) == BlockLosers(ws, conflicts)

\* _execute_orchestration, lines 221-228
DriverResolve ==
    /\ dpc = "resolve"
    /\ workstreams' = _resolve_conflicts(workstreams, execution_plan.resource_conflicts)
    /\ status' = "executing"
    /\ dpc' = "visit"
    /\ idx' = 1
    /\ UNCHANGED <<serviceVars, config, iter, started, active, phase, tableVars, metrics, errors,
                   running_workstreams, completed_workstreams, failed_workstreams,
                   execution_plan, workerVars, pool_shutdown, stopped>>

\* _execute_workstreams, lines 270-279: the next workstream of the order is
\* skipped unless its dependencies are completed and its resources granted
DriverVisit ==
    /\ dpc = "visit"
    /\ IF idx > Len(execution_plan.execution_order)
       THEN /\ dpc' = "drain"
            /\ UNCHANGED <<idx, resource_allocations, resource_manager>>
       ELSE LET wid == execution_plan.execution_order[idx]
            IN  IF ~_can_start_workstream(wid, workstreams, completed_workstreams)
                THEN /\ idx' = idx + 1
                     /\ UNCHANGED <<dpc, resource_allocations, resource_manager>>
                ELSE LET a == _allocate_resources(wid, workstreams,
                                                  resource_allocations, resource_manager)
                     IN  /\ resource_allocations' = a.ra
                         /\ resource_manager' = a.rm
                         /\ IF a.ok
                            THEN dpc' = "start" /\ UNCHANGED idx
                            ELSE idx' = idx + 1 /\ UNCHANGED dpc
    /\ UNCHANGED <<serviceVars, requestVars, started, active, status, phase, granted, metrics,
                   errors, running_workstreams, completed_workstreams,
                   failed_workstreams, execution_plan, workerVars, pool_shutdown,
                   stopped>>

\* _handle_orchestration_error
HandleError ==
    IF active
    THEN LET rel == _release_all_resources(resource_allocations, resource_manager)
         IN  /\ status' = "failed"
             /\ errors' = errors + 1
             /\ resource_allocations' = rel.ra
             /\ resource_manager' = rel.rm
    ELSE UNCHANGED <<status, errors, resource_allocations, resource_manager>>

\* _start_workstream_execution and lines 283-288: IN_PROGRESS, STARTING, the
\* submit to the pool (which raises once the pool is shut down)
DriverStart ==
    /\ dpc = "start"
    /\ LET wid == execution_plan.execution_order[idx]
       IN  /\ workstreams' = [workstreams EXCEPT ![wid].status = "in_progress"]
           /\ phase' = [phase EXCEPT ![wid] = "starting"]
           /\ IF pool_shutdown
              THEN /\ HandleError
                   /\ dpc' = "done"
                   /\ UNCHANGED <<idx, running_workstreams, wpc>>
              ELSE /\ wpc' = [wpc EXCEPT ![wid] = "queued"]
                   /\ running_workstreams' = running_workstreams \cup {wid}
                   /\ IF Cardinality(running_workstreams') >= config.max_concurrent_workstreams
                      THEN dpc' = "poll" /\ UNCHANGED idx
                      ELSE dpc' = "visit" /\ idx' = idx + 1
                   /\ UNCHANGED <<status, errors, resource_allocations, resource_manager>>
    /\ UNCHANGED <<serviceVars, config, iter, started, active, granted, metrics,
                   completed_workstreams, failed_workstreams, execution_plan,
                   future, pool_shutdown, stopped>>

\* _initiate_rollback, on the workstreams as the poll left them
Rollback(ws, ph, ra, rm, m) ==
    LET rel == _release_all_resources(ra, rm)
    IN  [status  |-> "rolling_back",
         metrics |-> [m EXCEPT !.rollback_count = @ + 1],
         ws      |-> [i \in Ids |-> IF ws[i].status = "in_progress"
                                    THEN [ws[i] EXCEPT !.status = "failed"]
                                    ELSE ws[i]],
         phase   |-> [i \in Ids |-> IF ws[i].status = "in_progress"
                                    THEN "rolled_back" ELSE ph[i]],
         ra      |-> rel.ra,
         rm      |-> rel.rm]

\* releases of _wait_for_workstream_completion, line 482, for a set of
\* workstreams
RECURSIVE ReleaseEach(_, _, _)
ReleaseEach(S, ra, rm) ==
    IF S = {} THEN [ra |-> ra, rm |-> rm]
    ELSE LET w   == CHOOSE x \in S : \A y \in S : x <= y
             rel == _release_workstream_resources(w, ra, rm)
         IN  ReleaseEach(S \ {w}, rel.ra, rel.rm)

\* _wait_for_workstream_completion: one non-blocking pass over the running
\* set, then metrics and the rollback check if anything finished
_wait_for_workstream_completion ==
    LET done == {w \in running_workstreams : future[w] # "none"}
        ph1  == [i \in Ids |-> IF i \in done THEN future[i] ELSE phase[i]]
        ws1  == [i \in Ids |-> IF i \in done
                               THEN [workstreams[i] EXCEPT !.status = future[i]]
                               ELSE workstreams[i]]
        fin  == {w \in running_workstreams : ph1[w] \in {"completed", "failed"}}
        comp == {w \in fin : ph1[w] = "completed"}
        fail == fin \ comp
        rel  == ReleaseEach(fin, resource_allocations, resource_manager)
        m1   == IF fin # {} THEN _update_orchestration_metrics(ws1) ELSE metrics
        rb   == Rollback(ws1, ph1, rel.ra, rel.rm, m1)
    IN  /\ running_workstreams' = running_workstreams \ fin
        /\ completed_workstreams' = completed_workstreams \cup comp
        /\ failed_workstreams' = failed_workstreams \cup fail
        /\ IF fin # {} /\ config.enable_auto_rollback /\ RollbackDue(failed_workstreams')
           THEN /\ status' = rb.status
                /\ metrics' = rb.metrics
                /\ workstreams' = rb.ws
                /\ phase' = rb.phase
                /\ resource_allocations' = rb.ra
                /\ resource_manager' = rb.rm
           ELSE /\ metrics' = m1
                /\ workstreams' = ws1
                /\ phase' = ph1
                /\ resource_allocations' = rel.ra
                /\ resource_manager' = rel.rm
                /\ UNCHANGED status

\* _execute_workstreams, lines 286-288: the poll made when the running set
\* has reached max_concurrent_workstreams; the loop then goes on
DriverPoll ==
    /\ dpc = "poll"
    /\ _wait_for_workstream_completion
    /\ dpc' = "visit"
    /\ idx' = idx + 1
    /\ UNCHANGED <<serviceVars, config, iter, started, active, granted, errors, execution_plan,
                   workerVars, pool_shutdown, stopped>>

\* _execute_workstreams, lines 291-292
DriverDrain ==
    /\ dpc = "drain"
    /\ IF running_workstreams = {}
       THEN /\ dpc' = "wait"
            /\ UNCHANGED <<workstreams, status, phase, resource_allocations,
                           resource_manager, metrics, running_workstreams,
                           completed_workstreams, failed_workstreams>>
       ELSE /\ _wait_for_workstream_completion
            /\ UNCHANGED dpc
    /\ UNCHANGED <<serviceVars, config, iter, started, active, granted, errors, execution_plan,
                   idx, workerVars, pool_shutdown, stopped>>

\* _wait_for_completion: leaves when no workstream is PENDING or IN_PROGRESS,
\* or at the timeout, which fails those that are
DriverWait ==
    /\ dpc = "wait"
    /\ LET active_workstreams ==
               {i \in Ids : workstreams[i].status \in {"pending", "in_progress"}}
       IN  /\ workstreams' = [i \in Ids |-> IF i \in active_workstreams
                                           THEN [workstreams[i] EXCEPT !.status = "failed"]
                                           ELSE workstreams[i]]
           /\ phase' = [i \in Ids |-> IF i \in active_workstreams
                                     THEN "failed" ELSE phase[i]]
    /\ dpc' = "finalize"
    /\ UNCHANGED <<serviceVars, config, iter, started, active, status, tableVars, metrics, errors,
                   idx, running_workstreams, completed_workstreams,
                   failed_workstreams, execution_plan, workerVars, pool_shutdown,
                   stopped>>

\* _finalize_orchestration reporting FAILED as soon as one workstream failed
DriverFinalize_failed_on_any_failure ==
    /\ dpc = "finalize"
    /\ status' = IF \E i \in Ids : workstreams[i].status = "failed"
                 THEN "failed" ELSE "completed"
    /\ metrics' = _update_orchestration_metrics(workstreams)
    /\ dpc' = "done"
    /\ UNCHANGED <<serviceVars, requestVars, started, active, phase, tableVars, errors, idx,
                   running_workstreams, completed_workstreams, failed_workstreams,
                   execution_plan, workerVars, pool_shutdown, stopped>>

\* _finalize_orchestration
DriverFinalize ==
    /\ dpc = "finalize"
    /\ LET failed_count == Cardinality({i \in Ids : workstreams[i].status = "failed"})
       IN  status' = IF failed_count = 0 THEN "completed"
                     ELSE IF failed_count = MaxItems THEN "failed"
                     ELSE "completed"
    /\ metrics' = _update_orchestration_metrics(workstreams)
    /\ dpc' = "done"
    /\ UNCHANGED <<serviceVars, requestVars, started, active, phase, tableVars, errors, idx,
                   running_workstreams, completed_workstreams, failed_workstreams,
                   execution_plan, workerVars, pool_shutdown, stopped>>

\* -------------------------------------------------------------- worker pool
Busy == {i \in Ids : wpc[i] \in {"running", "completing", "failing"}}

\* _execute_single_workstream, line 371, once a pool thread takes the task
WorkerRun(w) ==
    /\ wpc[w] = "queued"
    /\ Cardinality(Busy) < PoolSize
    /\ wpc' = [wpc EXCEPT ![w] = "running"]
    /\ phase' = [phase EXCEPT ![w] = "running"]
    /\ UNCHANGED <<serviceVars, requestVars, started, active, status, tableVars, metrics, errors,
                   driverVars, future, pool_shutdown, stopped>>

\* line 379: the execution returned
WorkerExecuted(w) ==
    /\ wpc[w] = "running"
    /\ wpc' = [wpc EXCEPT ![w] = "completing"]
    /\ phase' = [phase EXCEPT ![w] = "completing"]
    /\ UNCHANGED <<serviceVars, requestVars, started, active, status, tableVars, metrics, errors,
                   driverVars, future, pool_shutdown, stopped>>

\* lines 407-424: COMPLETED, and the future's result
WorkerCompleted(w) ==
    /\ wpc[w] = "completing"
    /\ wpc' = [wpc EXCEPT ![w] = "done"]
    /\ workstreams' = [workstreams EXCEPT ![w].status = "completed"]
    /\ phase' = [phase EXCEPT ![w] = "completed"]
    /\ future' = [future EXCEPT ![w] = "completed"]
    /\ UNCHANGED <<serviceVars, config, iter, started, active, status, tableVars, metrics, errors,
                   driverVars, pool_shutdown, stopped>>

\* lines 426-430: the execution raised
WorkerRaised(w) ==
    /\ wpc[w] = "running"
    /\ wpc' = [wpc EXCEPT ![w] = "failing"]
    /\ phase' = [phase EXCEPT ![w] = "failed"]
    /\ UNCHANGED <<serviceVars, requestVars, started, active, status, tableVars, metrics, errors,
                   driverVars, future, pool_shutdown, stopped>>

\* lines 432-440: FAILED, and the future's result
WorkerFailed(w) ==
    /\ wpc[w] = "failing"
    /\ wpc' = [wpc EXCEPT ![w] = "done"]
    /\ workstreams' = [workstreams EXCEPT ![w].status = "failed"]
    /\ future' = [future EXCEPT ![w] = "failed"]
    /\ UNCHANGED <<serviceVars, config, iter, started, active, status, phase, tableVars, metrics,
                   errors, driverVars, pool_shutdown, stopped>>

Next ==
    \/ start_orchestration
    \/ pause_orchestration
    \/ resume_orchestration
    \/ stop_orchestration
    \/ shutdown
    \/ DriverBegin
    \/ DriverResolve
    \/ DriverVisit
    \/ DriverStart
    \/ DriverPoll
    \/ DriverDrain
    \/ DriverWait
    \/ DriverFinalize
    \/ \E w \in Ids : WorkerRun(w)
    \/ \E w \in Ids : WorkerExecuted(w)
    \/ \E w \in Ids : WorkerCompleted(w)
    \/ \E w \in Ids : WorkerRaised(w)
    \/ \E w \in Ids : WorkerFailed(w)

Spec == Init /\ [][Next]_vars

\* ======================================================================
\* Runs of requests whose workstreams contend for one resource, and of the
\* dependency chain of test_dependency_management (specification
\* SpecContend).  Each workstream requires the resource exclusively, shared
\* or not at all, and at least two require it; workstream 1 has priority 1
\* or the default priority, as in test_conflict_resolution.
\* ======================================================================
ContentionChoices ==
    {[i \in Ids |-> IF shape[i] = "none" THEN <<>>
                    ELSE <<[rid |-> rid, excl |-> (shape[i] = "exclusive")]>>] :
        rid \in Rids,
        shape \in {f \in [Ids -> {"none", "shared", "exclusive"}] :
                      Cardinality({i \in Ids : f[i] # "none"}) >= 2}}

PriorityChoices ==
    {[i \in Ids |-> DefaultPriority],
     [i \in Ids |-> IF i = 1 THEN 1 ELSE DefaultPriority]}

\* workstream i depends on workstream i - 1
ChainDependencies ==
    [i \in Ids |-> IF i = 1 THEN {} ELSE {[src |-> i, tgt |-> i - 1]}]

InitContend ==
    /\ \/ \E p \in PriorityChoices, r \in ContentionChoices :
             workstreams = [i \in Ids |-> [priority |-> p[i], dependencies |-> {},
                                           required_resources |-> r[i],
                                           status |-> "pending"]]
       \/ workstreams = [i \in Ids |-> [priority |-> DefaultPriority,
                                         dependencies |-> ChainDependencies[i],
                                         required_resources |-> <<>>,
                                         status |-> "pending"]]
    /\ config \in ConfigChoices
    /\ ~config.enable_auto_rollback
    /\ iter = [k \in 1..MaxItems |-> k]
    /\ InitRun
    /\ NoServices

SpecContend == InitContend /\ [][Next]_vars

\* ======================================================================
\* Runs of requests that set what a default request leaves alone
\* (specification SpecSettings): config.resource_conflict_strategy,
\* config.max_database_connections at its least value, with every resource
\* of type DATABASE, and the dependency_type of the edges
\* ======================================================================
DependencyType == {"requires", "shares_resource", "optional"}

\* the least value of the per-type limits (Field(ge=1))
LeastLimit == 1

SettingsConfigChoices ==
    [max_concurrent_workstreams : 1..MaxConc,
     enable_auto_rollback : {FALSE},
     rollback_threshold : ThresholdChoices,
     resource_conflict_strategy : {"priority_based", "lifo"},
     max_database_connections : {LeastLimit}]

\* workstream 2 has one edge to workstream 1 of any type, or workstreams 1
\* and 2 have an optional edge to each other
TypedDependencyChoices ==
    {[i \in Ids |-> IF i = 2
                    THEN {[src |-> 2, tgt |-> 1, dependency_type |-> t]}
                    ELSE {}] : t \in DependencyType}
    \cup {[i \in Ids |-> IF i = 1
                         THEN {[src |-> 1, tgt |-> 2, dependency_type |-> "optional"]}
                         ELSE IF i = 2
                         THEN {[src |-> 2, tgt |-> 1, dependency_type |-> "optional"]}
                         ELSE {}]}

\* every workstream shares the resource, or workstreams 1 and 2 require it
\* exclusively
SettingsRequirementChoices ==
    {[i \in Ids |-> <<[rid |-> 1, excl |-> FALSE]>>],
     [i \in Ids |-> IF i <= 2 THEN <<[rid |-> 1, excl |-> TRUE]>> ELSE <<>>]}

InitSettings ==
    /\ \/ \E p \in PriorityChoices, r \in SettingsRequirementChoices :
             workstreams = [i \in Ids |-> [priority |-> p[i], dependencies |-> {},
                                           required_resources |-> r[i],
                                           status |-> "pending"]]
       \/ \E d \in TypedDependencyChoices :
             workstreams = [i \in Ids |-> [priority |-> DefaultPriority,
                                           dependencies |-> d[i],
                                           required_resources |-> <<>>,
                                           status |-> "pending"]]
    /\ config \in SettingsConfigChoices
    /\ iter = [k \in 1..MaxItems |-> k]
    /\ InitRun
    /\ NoServices

SpecSettings == InitSettings /\ [][Next]_vars

\* ======================================================================
\* WorkstreamScheduler.build_execution_plan on its own (specification
\* SpecPlan): workstreams of the default priority with up to MaxPlanEdges
\* dependency edges, each listed by its source workstream
\* ======================================================================
PlanDependencyChoices ==
    {[i \in Ids |-> {e \in S : e.src = i}] : S \in SubsetsUpTo(Edge, MaxPlanEdges)}

InitPlan ==
    /\ \E d \in PlanDependencyChoices :
          workstreams = [i \in Ids |-> [priority |-> DefaultPriority,
                                        dependencies |-> d[i],
                                        required_resources |-> <<>>,
                                        status |-> "pending"]]
    /\ config \in ConfigChoices
    /\ config.max_concurrent_workstreams = 1 /\ config.enable_auto_rollback
    /\ iter \in Perms(Ids)
    /\ InitRun
    /\ NoServices

BuildPlan ==
    /\ started = "no"
    /\ execution_plan' = build_execution_plan(workstreams, iter)
    /\ started' = "planned"
    /\ UNCHANGED <<serviceVars, requestVars, active, status, phase, tableVars, metrics, errors,
                   dpc, idx, running_workstreams, completed_workstreams,
                   failed_workstreams, workerVars, pool_shutdown, stopped>>

NextPlan == BuildPlan

SpecPlan == InitPlan /\ [][NextPlan]_vars

\* build_execution_plan on requests without dependencies whose workstreams
\* list up to MaxPlanReqs resource requirements in all (specification
\* SpecConflict)
PlanRequirementChoices ==
    {[i \in Ids |->
        LET Mine(x) == x[1] = i
            mine == SelectSeq(l, Mine)
        IN  [k \in 1..Len(mine) |-> mine[k][2]]] :
        l \in SeqsUpTo(Ids \X Requirement, MaxPlanReqs)}

InitConflict ==
    /\ \E r \in PlanRequirementChoices :
          workstreams = [i \in Ids |-> [priority |-> DefaultPriority,
                                        dependencies |-> {},
                                        required_resources |-> r[i],
                                        status |-> "pending"]]
    /\ config \in ConfigChoices
    /\ config.max_concurrent_workstreams = 1 /\ config.enable_auto_rollback
    /\ iter = [k \in 1..MaxItems |-> k]
    /\ InitRun
    /\ NoServices

SpecConflict == InitConflict /\ [][NextPlan]_vars

\* ======================================================================
\* Workers of workstreams that have an assigned agent, and direct calls of
\* the WorktreeManager (specification SpecWorktree).  The workstreams
\* 1..MaxAgents have an assigned_agent_id; active_worktrees starts as
\* _load_worktree_config found it on disk.
\* ======================================================================
InitWorktree ==
    /\ workstreams = [i \in Ids |-> [priority |-> DefaultPriority, dependencies |-> {},
                                      required_resources |-> <<>>,
                                      status |-> "pending",
                                      assigned_agent_id |-> (i <= MaxAgents)]]
    /\ config \in ConfigChoices
    /\ config.max_concurrent_workstreams = 1 /\ config.enable_auto_rollback
    /\ iter = [k \in 1..MaxItems |-> k]
    /\ InitRun
    /\ active_worktrees \in SUBSET Ids
    /\ metadata = [i \in Ids |-> FALSE]
    /\ merge_success = [i \in Ids |-> "none"]
    /\ workstreams_db = <<>>
    /\ returned = None
    /\ frames = NoFrames

\* _start_workstream_execution of a workstream with an assigned agent
AgentStart(w, git) ==
    /\ wpc[w] = "none"
    /\ workstreams[w].status = "pending"
    /\ workstreams[w].assigned_agent_id
    /\ workstreams' = [workstreams EXCEPT ![w].status = "in_progress"]
    /\ phase' = [phase EXCEPT ![w] = "starting"]
    /\ LET c == create_worktree_for_workstream(active_worktrees, w, git)
       IN  /\ active_worktrees' = c.awt
           /\ metadata' = [metadata EXCEPT ![w] = c.path]
    /\ wpc' = [wpc EXCEPT ![w] = "queued"]
    /\ UNCHANGED <<config, iter, started, active, status, tableVars, metrics, errors,
                   driverVars, future, pool_shutdown, stopped, merge_success,
                   workstreams_db, returned, frames>>

\* _execute_single_workstream, lines 382-389: the commit, whose result is
\* only logged
AgentCommit(w) ==
    /\ wpc[w] = "completing"
    /\ metadata[w]
    /\ wpc' = [wpc EXCEPT ![w] = "merge"]
    /\ UNCHANGED <<serviceVars, requestVars, started, active, status, phase, tableVars,
                   metrics, errors, driverVars, future, pool_shutdown, stopped>>

\* lines 391-396: the merge
AgentMerge(w, git) ==
    /\ wpc[w] = "merge"
    /\ merge_success' = [merge_success EXCEPT ![w] =
           IF merge_worktree_to_main(active_worktrees, w, git) THEN "true" ELSE "false"]
    /\ wpc' = [wpc EXCEPT ![w] = "cleanup"]
    /\ UNCHANGED <<requestVars, started, active, status, phase, tableVars,
                   metrics, errors, driverVars, future, pool_shutdown, stopped,
                   active_worktrees, metadata, workstreams_db, returned, frames>>

\* lines 398-403: the cleanup
AgentCleanup(w, git) ==
    /\ wpc[w] = "cleanup"
    /\ active_worktrees' = cleanup_worktree(active_worktrees, w, git).awt
    /\ wpc' = [wpc EXCEPT ![w] = "complete"]
    /\ UNCHANGED <<requestVars, started, active, status, phase, tableVars,
                   metrics, errors, driverVars, future, pool_shutdown, stopped,
                   metadata, merge_success, workstreams_db, returned, frames>>

\* lines 405-424 after the worktree operations
AgentCompleted(w) ==
    /\ wpc[w] = "complete"
    /\ wpc' = [wpc EXCEPT ![w] = "done"]
    /\ workstreams' = [workstreams EXCEPT ![w].status = "completed"]
    /\ phase' = [phase EXCEPT ![w] = "completed"]
    /\ future' = [future EXCEPT ![w] = "completed"]
    /\ UNCHANGED <<serviceVars, config, iter, started, active, status, tableVars,
                   metrics, errors, driverVars, pool_shutdown, stopped>>

\* a direct call of cleanup_worktree, as test_worktree_manager makes it
CallCleanup(w, git) ==
    LET c == cleanup_worktree(active_worktrees, w, git)
    IN  /\ active_worktrees' = c.awt
        /\ returned' = [op |-> "cleanup_worktree", workstream_id |-> w,
                        had |-> (w \in active_worktrees), value |-> c.ok]
        /\ UNCHANGED <<requestVars, started, active, status, phase, tableVars,
                       metrics, errors, driverVars, workerVars, pool_shutdown, stopped,
                       metadata, merge_success, workstreams_db, frames>>

\* direct calls of create, commit and merge
CallCreate(w, git) ==
    LET c == create_worktree_for_workstream(active_worktrees, w, git)
    IN  /\ active_worktrees' = c.awt
        /\ returned' = [op |-> "create_worktree_for_workstream", workstream_id |-> w,
                        had |-> (w \in active_worktrees), value |-> c.path]
        /\ UNCHANGED <<requestVars, started, active, status, phase, tableVars,
                       metrics, errors, driverVars, workerVars, pool_shutdown, stopped,
                       metadata, merge_success, workstreams_db, frames>>

CallCommit(w, git) ==
    /\ returned' = [op |-> "commit_worktree_changes", workstream_id |-> w,
                    had |-> (w \in active_worktrees),
                    value |-> commit_worktree_changes(active_worktrees, w, git)]
    /\ UNCHANGED <<requestVars, started, active, status, phase, tableVars,
                   metrics, errors, driverVars, workerVars, pool_shutdown, stopped,
                   active_worktrees, metadata, merge_success, workstreams_db, frames>>

CallMerge(w, git) ==
    /\ returned' = [op |-> "merge_worktree_to_main", workstream_id |-> w,
                    had |-> (w \in active_worktrees),
                    value |-> merge_worktree_to_main(active_worktrees, w, git)]
    /\ UNCHANGED <<requestVars, started, active, status, phase, tableVars,
                   metrics, errors, driverVars, workerVars, pool_shutdown, stopped,
                   active_worktrees, metadata, merge_success, workstreams_db, frames>>

NextWorktree ==
    \/ \E w \in Ids, git \in BOOLEAN : AgentStart(w, git)
    \/ \E w \in Ids : WorkerRun(w)
    \/ \E w \in Ids : WorkerExecuted(w)
    \/ \E w \in Ids : WorkerRaised(w)
    \/ \E w \in Ids : WorkerFailed(w)
    \/ \E w \in Ids : ~metadata[w] /\ WorkerCompleted(w)
    \/ \E w \in Ids : AgentCommit(w)
    \/ \E w \in Ids, git \in BOOLEAN : AgentMerge(w, git)
    \/ \E w \in Ids, git \in GitCleanup : AgentCleanup(w, git)
    \/ \E w \in Ids : AgentCompleted(w)
    \/ \E w \in Ids, git \in BOOLEAN : CallCreate(w, git)
    \/ \E w \in Ids, git \in BOOLEAN : CallCommit(w, git)
    \/ \E w \in Ids, git \in BOOLEAN : CallMerge(w, git)
    \/ \E w \in Ids, git \in GitCleanup : CallCleanup(w, git)

SpecWorktree == InitWorktree /\ [][NextWorktree]_vars

\* ======================================================================
\* The workstreams endpoints (specification SpecApi).  workstreams_db maps
\* an id to the stored workstream's status.  An id is "ws_<n>_<t>" with n
\* the number of stored workstreams plus one and t the second of the
\* creation, here the pair <<n, t>>.
\* ======================================================================
ApiIds == (1..MaxStored) \X (1..MaxClock)

\* the statuses a client can store with PUT
ApiStatus == {"pending", "running", "completed", "blocked", "failed"}

InitApi ==
    /\ workstreams = [i \in Ids |-> [priority |-> DefaultPriority, dependencies |-> {},
                                      required_resources |-> <<>>,
                                      status |-> "pending"]]
    /\ config \in ConfigChoices
    /\ config.max_concurrent_workstreams = 1 /\ config.enable_auto_rollback
    /\ iter = [k \in 1..MaxItems |-> k]
    /\ InitRun
    /\ NoServices

Respond(op, id, code) ==
    returned' = [op |-> op, workstream_id |-> id, code |-> code]

ApiUnchanged ==
    UNCHANGED <<requestVars, started, active, status, phase, tableVars, metrics,
                errors, driverVars, workerVars, pool_shutdown, stopped,
                active_worktrees, metadata, merge_success, frames>>

\* create_workstream at second t: a stored workstream of the same id is
\* replaced
create_workstream(t) ==
    /\ Cardinality(DOMAIN workstreams_db) < MaxStored
    /\ \A id \in DOMAIN workstreams_db : id[2] <= t
    /\ LET id == <<Cardinality(DOMAIN workstreams_db) + 1, t>>
       IN  /\ workstreams_db' = [x \in DOMAIN workstreams_db \cup {id} |->
                                    IF x = id THEN "pending" ELSE workstreams_db[x]]
           /\ Respond("create_workstream", id, HttpOk)
    /\ ApiUnchanged

\* update_workstream with a status in the body
update_workstream(id, st) ==
    /\ IF id \notin DOMAIN workstreams_db
       THEN /\ Respond("update_workstream", id, HttpNotFound)
            /\ UNCHANGED workstreams_db
       ELSE /\ workstreams_db' = [workstreams_db EXCEPT ![id] = st]
            /\ Respond("update_workstream", id, HttpOk)
    /\ ApiUnchanged

\* delete_workstream
delete_workstream(id) ==
    /\ IF id \notin DOMAIN workstreams_db
       THEN /\ Respond("delete_workstream", id, HttpNotFound)
            /\ UNCHANGED workstreams_db
       ELSE /\ workstreams_db' = [x \in DOMAIN workstreams_db \ {id} |-> workstreams_db[x]]
            /\ Respond("delete_workstream", id, HttpOk)
    /\ ApiUnchanged

\* start_workstream without the test of the status
start_workstream_unchecked(id) ==
    /\ IF id \notin DOMAIN workstreams_db
       THEN /\ Respond("start_workstream", id, HttpNotFound)
            /\ UNCHANGED workstreams_db
       ELSE /\ workstreams_db' = [workstreams_db EXCEPT ![id] = "running"]
            /\ Respond("start_workstream", id, HttpOk)
    /\ ApiUnchanged

\* start_workstream
start_workstream(id) ==
    /\ IF id \notin DOMAIN workstreams_db
       THEN /\ Respond("start_workstream", id, HttpNotFound)
            /\ UNCHANGED workstreams_db
       ELSE IF workstreams_db[id] # "pending"
       THEN /\ Respond("start_workstream", id, HttpBadRequest)
            /\ UNCHANGED workstreams_db
       ELSE /\ workstreams_db' = [workstreams_db EXCEPT ![id] = "running"]
            /\ Respond("start_workstream", id, HttpOk)
    /\ ApiUnchanged

\* complete_workstream
complete_workstream(id) ==
    /\ IF id \notin DOMAIN workstreams_db
       THEN /\ Respond("complete_workstream", id, HttpNotFound)
            /\ UNCHANGED workstreams_db
       ELSE IF workstreams_db[id] # "running"
       THEN /\ Respond("complete_workstream", id, HttpBadRequest)
            /\ UNCHANGED workstreams_db
       ELSE /\ workstreams_db' = [workstreams_db EXCEPT ![id] = "completed"]
            /\ Respond("complete_workstream", id, HttpOk)
    /\ ApiUnchanged

\* block_workstream
block_workstream(id) ==
    /\ IF id \notin DOMAIN workstreams_db
       THEN /\ Respond("block_workstream", id, HttpNotFound)
            /\ UNCHANGED workstreams_db
       ELSE /\ workstreams_db' = [workstreams_db EXCEPT ![id] = "blocked"]
            /\ Respond("block_workstream", id, HttpOk)
    /\ ApiUnchanged

NextApi ==
    \/ \E t \in 1..MaxClock : create_workstream(t)
    \/ \E id \in ApiIds, st \in ApiStatus : update_workstream(id, st)
    \/ \E id \in ApiIds : delete_workstream(id)
    \/ \E id \in ApiIds : start_workstream(id)
    \/ \E id \in ApiIds : complete_workstream(id)
    \/ \E id \in ApiIds : block_workstream(id)

SpecApi == InitApi /\ [][NextApi]_vars

\* ======================================================================
\* ConflictResolver.resolve_conflict on its own (specification
\* SpecResolve): any conflict over the workstreams of the request, with any
\* resolution_strategy, handed to resolve_conflict; returned keeps the
\* conflict and the selected_workstream_id
\* ======================================================================
PriorityLevels == {1, DefaultPriority, 10}

ConflictResolutionStrategy == {"priority_based", "fifo", "lifo", "round_robin", "manual"}

ConflictChoices ==
    [resource_id : Rids, conflict_type : {"exclusive_access"},
     conflicting_workstreams : SeqsUpTo(Ids, MaxListed) \ {<<>>},
     resolution_strategy : ConflictResolutionStrategy]

InitResolve ==
    /\ \E p \in [Ids -> PriorityLevels] :
          workstreams = [i \in Ids |-> [priority |-> p[i], dependencies |-> {},
                                        required_resources |-> <<>>,
                                        status |-> "pending"]]
    /\ config \in ConfigChoices
    /\ config.max_concurrent_workstreams = 1 /\ config.enable_auto_rollback
    /\ iter = [k \in 1..MaxItems |-> k]
    /\ InitRun
    /\ NoServices

CallResolve(conflict) ==
    /\ returned' = [op |-> "resolve_conflict", conflict |-> conflict,
                    value |-> resolve_conflict(conflict, workstreams)]
    /\ UNCHANGED <<requestVars, started, active, status, phase, tableVars, metrics,
                   errors, driverVars, workerVars, pool_shutdown, stopped,
                   active_worktrees, metadata, merge_success, workstreams_db, frames>>

NextResolve == \E conflict \in ConflictChoices : CallResolve(conflict)

SpecResolve == InitResolve /\ [][NextResolve]_vars

\* ======================================================================
\* build_execution_plan on workstreams of different priorities with at most
\* MaxEdges dependency edges (specification SpecPriority)
\* ======================================================================
InitPriority ==
    /\ \E p \in [Ids -> PriorityLevels], d \in DependencyChoices :
          workstreams = [i \in Ids |-> [priority |-> p[i], dependencies |-> d[i],
                                        required_resources |-> <<>>,
                                        status |-> "pending"]]
    /\ config \in ConfigChoices
    /\ config.max_concurrent_workstreams = 1 /\ config.enable_auto_rollback
    /\ iter = [k \in 1..MaxItems |-> k]
    /\ InitRun
    /\ NoServices

SpecPriority == InitPriority /\ [][NextPlan]_vars

\* ======================================================================
\* build_execution_plan with the plan's estimated_duration and
\* parallelization_opportunities (specification SpecEstimate): requests
\* with estimated durations and up to MaxPlanEdges dependency edges, and
\* requests with dependency edges and up to MaxPlanReqs requirements
\* ======================================================================
DurationChoices == {None} \cup [minutes : 1..MaxDuration]

InitEstimate ==
    /\ \/ \E d \in PlanDependencyChoices, t \in [Ids -> DurationChoices] :
             workstreams = [i \in Ids |-> [priority |-> DefaultPriority,
                                           dependencies |-> d[i],
                                           required_resources |-> <<>>,
                                           estimated_duration |-> t[i],
                                           status |-> "pending"]]
       \/ \E d \in PlanDependencyChoices, r \in PlanRequirementChoices :
             workstreams = [i \in Ids |-> [priority |-> DefaultPriority,
                                           dependencies |-> d[i],
                                           required_resources |-> r[i],
                                           estimated_duration |-> None,
                                           status |-> "pending"]]
    /\ config \in ConfigChoices
    /\ config.max_concurrent_workstreams = 1 /\ config.enable_auto_rollback
    /\ iter = [k \in 1..MaxItems |-> k]
    /\ InitRun
    /\ NoServices

\* build_execution_plan; returned holds the plan's two estimates
BuildPlanEstimates ==
    /\ started = "no"
    /\ execution_plan' = build_execution_plan(workstreams, iter)
    /\ returned' =
          IF execution_plan'.raised THEN None
          ELSE [op |-> "build_execution_plan",
                estimated_duration |->
                    _estimate_total_duration(workstreams,
                                             execution_plan'.execution_order),
                parallelization_opportunities |->
                    _identify_parallelization_opportunities(workstreams)]
    /\ started' = "planned"
    /\ UNCHANGED <<active_worktrees, metadata, merge_success, workstreams_db,
                   requestVars, active, status, phase, tableVars, metrics, errors,
                   dpc, idx, running_workstreams, completed_workstreams,
                   failed_workstreams, workerVars, pool_shutdown, stopped, frames>>

NextEstimate == BuildPlanEstimates

SpecEstimate == InitEstimate /\ [][NextEstimate]_vars

\* ======================================================================
\* Runs with automatic rollback at the least, the default and the greatest
\* rollback_threshold (specification SpecThreshold), in percent; the
\* workstreams have no dependencies and no requirements
\* ======================================================================
ThresholdRange == {0, 30, 100}

InitThreshold ==
    /\ workstreams = [i \in Ids |-> [priority |-> DefaultPriority,
                                     dependencies |-> {},
                                     required_resources |-> <<>>,
                                     status |-> "pending"]]
    /\ config \in [max_concurrent_workstreams : 1..MaxConc,
                   enable_auto_rollback : {TRUE},
                   rollback_threshold : ThresholdRange]
    /\ iter = [k \in 1..MaxItems |-> k]
    /\ InitRun
    /\ NoServices

SpecThreshold == InitThreshold /\ [][Next]_vars

\* ======================================================================
\* pause_orchestration, resume_orchestration and stop_orchestration as
\* calls with an orchestration id and a returned value, beside a run
\* (specification SpecControl).  Workstream 1 requires the resource
\* exclusively; returned holds the last call and its value
\* ======================================================================
RunId == "orchestration"
OrchestrationIds == {RunId, "unknown"}

\* orchestration_id in self.active_orchestrations
Known(id) == id = RunId /\ active

InitControl ==
    /\ workstreams = [i \in Ids |-> [priority |-> DefaultPriority,
                                     dependencies |-> {},
                                     required_resources |->
                                         IF i = 1 THEN <<[rid |-> 1, excl |-> TRUE]>>
                                         ELSE <<>>,
                                     status |-> "pending"]]
    /\ config \in ConfigChoices
    /\ config.max_concurrent_workstreams = 1 /\ ~config.enable_auto_rollback
    /\ iter = [k \in 1..MaxItems |-> k]
    /\ InitRun
    /\ NoServices

\* pause_orchestration pausing a known orchestration whatever its status
CallPause_any_status(id) ==
    /\ status' = IF Known(id) THEN "paused" ELSE status
    /\ returned' = [op |-> "pause_orchestration", orchestration_id |-> id,
                    value |-> Known(id)]
    /\ UNCHANGED <<active_worktrees, metadata, merge_success, workstreams_db,
                   requestVars, started, active, phase, tableVars, metrics, errors,
                   driverVars, workerVars, pool_shutdown, stopped, frames>>

CallPause(id) ==
    /\ LET ok == Known(id) /\ status \in {"executing", "scheduling"}
       IN  /\ status' = IF ok THEN "paused" ELSE status
           /\ returned' = [op |-> "pause_orchestration", orchestration_id |-> id,
                           value |-> ok]
    /\ UNCHANGED <<active_worktrees, metadata, merge_success, workstreams_db,
                   requestVars, started, active, phase, tableVars, metrics, errors,
                   driverVars, workerVars, pool_shutdown, stopped, frames>>

CallResume(id) ==
    /\ LET ok == Known(id) /\ status = "paused"
       IN  /\ status' = IF ok THEN "executing" ELSE status
           /\ returned' = [op |-> "resume_orchestration", orchestration_id |-> id,
                           value |-> ok]
    /\ UNCHANGED <<active_worktrees, metadata, merge_success, workstreams_db,
                   requestVars, started, active, phase, tableVars, metrics, errors,
                   driverVars, workerVars, pool_shutdown, stopped, frames>>

CallStop(id) ==
    /\ IF Known(id) THEN StopEffect
       ELSE UNCHANGED <<status, resource_allocations, resource_manager, stopped>>
    /\ returned' = [op |-> "stop_orchestration", orchestration_id |-> id,
                    value |-> Known(id)]
    /\ UNCHANGED <<active_worktrees, metadata, merge_success, workstreams_db,
                   requestVars, started, active, phase, granted, metrics, errors,
                   driverVars, workerVars, pool_shutdown, frames>>

NextControl ==
    \/ start_orchestration
    \/ \E id \in OrchestrationIds : CallPause(id)
    \/ \E id \in OrchestrationIds : CallResume(id)
    \/ \E id \in OrchestrationIds : CallStop(id)
    \/ DriverBegin
    \/ DriverResolve
    \/ DriverVisit
    \/ DriverStart
    \/ DriverPoll
    \/ DriverDrain
    \/ DriverWait
    \/ DriverFinalize
    \/ \E w \in Ids : WorkerRun(w)
    \/ \E w \in Ids : WorkerExecuted(w)
    \/ \E w \in Ids : WorkerCompleted(w)
    \/ \E w \in Ids : WorkerRaised(w)
    \/ \E w \in Ids : WorkerFailed(w)

SpecControl == InitControl /\ [][NextControl]_vars

\* ======================================================================
\* Runs in which workstream 2 lists two requirements on the resource and
\* workstream 1, admitted before it, none or one (specification
\* SpecAcquire)
\* ======================================================================
InitAcquire ==
    /\ \E first \in SeqsUpTo(Requirement, 1), second \in [1..2 -> Requirement] :
          workstreams = [i \in Ids |-> [priority |-> DefaultPriority,
                                        dependencies |-> {},
                                        required_resources |->
                                            IF i = 1 THEN first
                                            ELSE IF i = 2 THEN second ELSE <<>>,
                                        status |-> "pending"]]
    /\ config \in ConfigChoices
    /\ config.max_concurrent_workstreams = MaxConc /\ ~config.enable_auto_rollback
    /\ iter = [k \in 1..MaxItems |-> k]
    /\ InitRun
    /\ NoServices

SpecAcquire == InitAcquire /\ [][Next]_vars

\* ======================================================================
\* stop_orchestration and the driver's _wait_for_workstream_completion
\* step by step (specification SpecRace): the two threads share
\* orchestration.resource_allocations and the ResourceManager without a
\* lock, so a step of one may fall between two steps of the other.  A
\* "del" of a key that is gone raises KeyError.  Workstream 1 requires the
\* resource.
\* ======================================================================
InitRace ==
    /\ \E r \in RequirementChoices :
          /\ r[1] # <<>>
          /\ workstreams = [i \in Ids |-> [priority |-> DefaultPriority,
                                           dependencies |-> {},
                                           required_resources |-> r[i],
                                           status |-> "pending"]]
    /\ config \in ConfigChoices
    /\ config.max_concurrent_workstreams = 1 /\ ~config.enable_auto_rollback
    /\ iter = [k \in 1..MaxItems |-> k]
    /\ InitRun
    /\ NoServices

\* the entries of resource_allocations, in the order of the dict
Items(ra) ==
    LET Present(r) == ra[r] # None
    IN  SelectSeq([k \in 1..MaxRes |-> k], Present)

\* stop_orchestration, lines 179-184, and list(...items()) of
\* _release_all_resources
StopBegin ==
    /\ frames.caller.pc = "idle"
    /\ active
    /\ status' = "failed"
    /\ frames' = [frames EXCEPT !.caller =
           [pc |-> "releasing",
            items |-> [k \in 1..Len(Items(resource_allocations)) |->
                          [resource_id |-> Items(resource_allocations)[k],
                           workstream_id |->
                               resource_allocations[Items(resource_allocations)[k]]
                                   .workstream_id]]]]
    /\ UNCHANGED <<active_worktrees, metadata, merge_success, workstreams_db, returned,
                   requestVars, started, active, phase, tableVars, metrics, errors,
                   driverVars, workerVars, pool_shutdown, stopped>>

\* _release_all_resources, lines 535-536, for one entry of the list
StopRelease ==
    /\ frames.caller.pc = "releasing"
    /\ frames.caller.items # <<>>
    /\ LET it == Head(frames.caller.items)
       IN  /\ resource_manager' =
                  release_resource(resource_manager, it.resource_id, it.workstream_id).rm
           /\ IF resource_allocations[it.resource_id] = None
              THEN /\ frames' = [frames EXCEPT !.caller.pc = "raised"]
                   /\ UNCHANGED resource_allocations
              ELSE /\ resource_allocations' =
                          [resource_allocations EXCEPT ![it.resource_id] = None]
                   /\ frames' = [frames EXCEPT !.caller.items = Tail(@)]
    /\ UNCHANGED <<active_worktrees, metadata, merge_success, workstreams_db, returned,
                   requestVars, started, active, status, phase, granted, metrics, errors,
                   driverVars, workerVars, pool_shutdown, stopped>>

\* stop_orchestration returns True
StopReturn ==
    /\ frames.caller.pc = "releasing"
    /\ frames.caller.items = <<>>
    /\ frames' = [frames EXCEPT !.caller.pc = "idle"]
    /\ stopped' = TRUE
    /\ UNCHANGED <<active_worktrees, metadata, merge_success, workstreams_db, returned,
                   requestVars, started, active, status, phase, tableVars, metrics,
                   errors, driverVars, workerVars, pool_shutdown>>

\* _wait_for_workstream_completion is entered from the for loop or from the
\* while loop of _execute_workstreams: list(running_workstreams)
PollEnter ==
    /\ dpc = "poll" \/ (dpc = "drain" /\ running_workstreams # {})
    /\ frames' = [frames EXCEPT !.driver =
           [todo |-> InOrder(running_workstreams, iter),
            resources_to_release |-> <<>>, finished |-> {}, from |-> dpc]]
    /\ dpc' = "polling"
    /\ UNCHANGED <<active_worktrees, metadata, merge_success, workstreams_db, returned,
                   requestVars, started, active, status, phase, tableVars, metrics,
                   errors, idx, running_workstreams, completed_workstreams,
                   failed_workstreams, execution_plan, workerVars, pool_shutdown,
                   stopped>>

\* lines 451-478 for one running workstream, and the first loop of
\* _release_workstream_resources if its phase is final
PollItem ==
    /\ dpc = "polling"
    /\ frames.driver.todo # <<>>
    /\ LET w  == Head(frames.driver.todo)
           ph == IF future[w] # "none" THEN future[w] ELSE phase[w]
           Own(r) == resource_allocations[r].workstream_id = w
       IN  /\ phase' = [phase EXCEPT ![w] = ph]
           /\ workstreams' = IF future[w] # "none"
                             THEN [workstreams EXCEPT ![w].status = future[w]]
                             ELSE workstreams
           /\ IF ph \in {"completed", "failed"}
              THEN /\ dpc' = "releasing"
                   /\ frames' = [frames EXCEPT !.driver.resources_to_release =
                                    SelectSeq(Items(resource_allocations), Own)]
              ELSE /\ frames' = [frames EXCEPT !.driver.todo = Tail(@)]
                   /\ UNCHANGED dpc
    /\ UNCHANGED <<active_worktrees, metadata, merge_success, workstreams_db, returned,
                   config, iter, started, active, status, tableVars, metrics, errors,
                   idx, running_workstreams, completed_workstreams,
                   failed_workstreams, execution_plan, workerVars, pool_shutdown,
                   stopped>>

\* lines 523-525 for one resource of resources_to_release, the KeyError
\* going to _handle_orchestration_error; then lines 484-490
PollRelease ==
    /\ dpc = "releasing"
    /\ LET w == Head(frames.driver.todo)
       IN  IF frames.driver.resources_to_release = <<>>
           THEN /\ running_workstreams' = running_workstreams \ {w}
                /\ completed_workstreams' =
                       IF phase[w] = "completed" THEN completed_workstreams \cup {w}
                       ELSE completed_workstreams
                /\ failed_workstreams' =
                       IF phase[w] = "completed" THEN failed_workstreams
                       ELSE failed_workstreams \cup {w}
                /\ frames' = [frames EXCEPT !.driver.todo = Tail(@),
                                            !.driver.finished = @ \cup {w}]
                /\ dpc' = "polling"
                /\ UNCHANGED <<status, errors, resource_allocations, resource_manager>>
           ELSE LET rid == Head(frames.driver.resources_to_release)
                    rm1 == release_resource(resource_manager, rid, w).rm
                    rel == _release_all_resources(resource_allocations, rm1)
                IN  IF resource_allocations[rid] = None
                    THEN /\ status' = "failed"
                         /\ errors' = errors + 1
                         /\ resource_allocations' = rel.ra
                         /\ resource_manager' = rel.rm
                         /\ dpc' = "done"
                         /\ UNCHANGED <<frames, running_workstreams,
                                        completed_workstreams, failed_workstreams>>
                    ELSE /\ resource_allocations' =
                                [resource_allocations EXCEPT ![rid] = None]
                         /\ resource_manager' = rm1
                         /\ frames' = [frames EXCEPT
                                          !.driver.resources_to_release = Tail(@)]
                         /\ UNCHANGED <<status, errors, dpc, running_workstreams,
                                        completed_workstreams, failed_workstreams>>
    /\ UNCHANGED <<active_worktrees, metadata, merge_success, workstreams_db, returned,
                   requestVars, started, active, phase, granted, metrics, idx,
                   execution_plan, workerVars, pool_shutdown, stopped>>

\* lines 492-512, and the return to the loop the poll was entered from
PollExit ==
    /\ dpc = "polling"
    /\ frames.driver.todo = <<>>
    /\ LET m1 == _update_orchestration_metrics(workstreams)
           rb == Rollback(workstreams, phase, resource_allocations, resource_manager, m1)
       IN  IF frames.driver.finished = {}
           THEN UNCHANGED <<workstreams, status, phase, resource_allocations,
                            resource_manager, metrics>>
           ELSE IF config.enable_auto_rollback /\ RollbackDue(failed_workstreams)
           THEN /\ status' = rb.status
                /\ metrics' = rb.metrics
                /\ workstreams' = rb.ws
                /\ phase' = rb.phase
                /\ resource_allocations' = rb.ra
                /\ resource_manager' = rb.rm
           ELSE /\ metrics' = m1
                /\ UNCHANGED <<workstreams, status, phase, resource_allocations,
                               resource_manager>>
    /\ dpc' = IF frames.driver.from = "poll" THEN "visit" ELSE "drain"
    /\ idx' = IF frames.driver.from = "poll" THEN idx + 1 ELSE idx
    /\ frames' = [frames EXCEPT !.driver = NoFrames.driver]
    /\ UNCHANGED <<active_worktrees, metadata, merge_success, workstreams_db, returned,
                   config, iter, started, active, granted, errors, running_workstreams,
                   completed_workstreams, failed_workstreams, execution_plan,
                   workerVars, pool_shutdown, stopped>>

NextRace ==
    \/ start_orchestration
    \/ StopBegin
    \/ StopRelease
    \/ StopReturn
    \/ DriverBegin
    \/ DriverResolve
    \/ DriverVisit
    \/ DriverStart
    \/ PollEnter
    \/ PollItem
    \/ PollRelease
    \/ PollExit
    \/ (running_workstreams = {} /\ DriverDrain)
    \/ DriverWait
    \/ DriverFinalize
    \/ \E w \in Ids : WorkerRun(w)
    \/ \E w \in Ids : WorkerExecuted(w)
    \/ \E w \in Ids : WorkerCompleted(w)
    \/ \E w \in Ids : WorkerRaised(w)
    \/ \E w \in Ids : WorkerFailed(w)

SpecRace == InitRace /\ [][NextRace]_vars

\* ======================================================================
\* ResourceManager on its own (specification SpecRM): any sequence of
\* allocate_resource and release_resource calls.  granted records, for each
\* call that returned True, the grant until its workstream calls
\* release_resource for the resource.
\* ======================================================================
InitRM ==
    /\ workstreams = [i \in Ids |-> [priority |-> DefaultPriority, dependencies |-> {},
                                      required_resources |-> <<>>,
                                      status |-> "pending"]]
    /\ config \in ConfigChoices
    /\ config.max_concurrent_workstreams = 1 /\ config.enable_auto_rollback
    /\ iter = [k \in 1..MaxItems |-> k]
    /\ InitRun
    /\ NoServices

RmAllocate(rid, wid, is_exclusive) ==
    LET a == allocate_resource(resource_manager, rid, wid, is_exclusive)
    IN  /\ a.ok \/ Len(resource_manager.waiting_workstreams[rid]) < MaxQueue
        /\ resource_manager' = a.rm
        /\ granted' = IF a.ok
                      THEN granted \cup {[resource_id |-> rid, workstream_id |-> wid,
                                          is_exclusive |-> is_exclusive]}
                      ELSE granted
        /\ UNCHANGED <<serviceVars, requestVars, started, active, status, phase,
                       resource_allocations, metrics, errors, driverVars, workerVars,
                       pool_shutdown, stopped>>

RmRelease(rid, wid) ==
    /\ resource_manager' = release_resource(resource_manager, rid, wid).rm
    /\ granted' = {g \in granted : ~(g.resource_id = rid /\ g.workstream_id = wid)}
    /\ UNCHANGED <<serviceVars, requestVars, started, active, status, phase,
                   resource_allocations, metrics, errors, driverVars, workerVars,
                   pool_shutdown, stopped>>

NextRM ==
    \/ \E rid \in Rids, wid \in Ids, is_exclusive \in BOOLEAN :
          RmAllocate(rid, wid, is_exclusive)
    \/ \E rid \in Rids, wid \in Ids : RmRelease(rid, wid)

SpecRM == InitRM /\ [][NextRM]_vars

\* ======================================================================
\* Properties of a run (specification Spec)
\* ======================================================================
Admitted == {"starting", "running", "completing"}

TablesEmpty ==
    /\ \A r \in Rids : resource_allocations[r] = None
    /\ \A r \in Rids : resource_manager.allocated_resources[r] = None

NoWorkerInFlight == \A i \in Ids : wpc[i] \in {"none", "done"}

\* C1: whenever a workstream's phase becomes STARTING or RUNNING, the target
\* of each of its dependency edges is a workstream whose phase is COMPLETED.
C1_DependenciesCompletedAtAdmission ==
    [][\A w \in Ids : \A p \in {"starting", "running"} :
          (phase[w] # p /\ phase'[w] = p) =>
              \A e \in workstreams[w].dependencies :
                  e.tgt \in Ids /\ phase[e.tgt] = "completed"]_vars

C1_Witness ==
    \E w \in Ids : /\ workstreams[w].dependencies # {}
                   /\ phase[w] = "running"

\* C2: at every state the number of workstreams in phase STARTING, RUNNING or
\* COMPLETING is at most config.max_concurrent_workstreams.
C2_ConcurrencyBound ==
    Cardinality({i \in Ids : phase[i] \in Admitted}) <= config.max_concurrent_workstreams

\* the dependency edges between workstreams of the request, and whether
\* they close a cycle
GraphEdges(ws) == {<<e.src, e.tgt>> : e \in AllEdges(ws)} \cap (Ids \X Ids)

RECURSIVE Closure(_, _)
Closure(R, n) ==
    IF n = 0 THEN R
    ELSE Closure(R \cup {<<p[1][1], p[2][2]>> : p \in {q \in R \X R : q[1][2] = q[2][1]}},
                 n - 1)

HasCycle(ws) == \E a \in Ids : <<a, a>> \in Closure(GraphEdges(ws), MaxItems)

\* C6: start_orchestration on a request with a dependency cycle raises and
\* leaves the orchestration unregistered, the driver unstarted, and every
\* workstream status, phase and resource table as it was.
C6_CycleStartsNothing ==
    (HasCycle(workstreams) /\ started # "no") =>
        /\ started = "raised"
        /\ ~active
        /\ dpc = "none"
        /\ status = "initializing"
        /\ \A i \in Ids : /\ workstreams[i].status = "pending"
                          /\ phase[i] = "scheduled"
                          /\ wpc[i] = "none"
        /\ TablesEmpty

C6_Witness == HasCycle(workstreams) /\ started = "raised"

\* what a workstream holds in either allocation table
HeldBy(i) ==
    {r \in Rids : \/ (resource_allocations[r] # None
                      /\ resource_allocations[r].workstream_id = i)
                  \/ (resource_manager.allocated_resources[r] # None
                      /\ resource_manager.allocated_resources[r].workstream_id = i)}

TerminalItemHoldsNothing ==
    \A i \in Ids : (phase[i] \in TerminalPhase /\ i \notin running_workstreams)
                      => HeldBy(i) = {}

TerminalRunHoldsNothing ==
    (active /\ status \in TerminalStatus /\ NoWorkerInFlight) => TablesEmpty

\* the tables once the driver thread has ended and no worker is in flight
QuiescentRunHoldsNothing == (dpc = "done" /\ NoWorkerInFlight) => TablesEmpty

\* C7: a terminal workstream that the driver has taken off its running set
\* holds no entry of either allocation table, and once the run is in a
\* terminal status with no executor in flight both tables are empty.
C7_ResourcesReleased == TerminalItemHoldsNothing /\ TerminalRunHoldsNothing

\* C8: once a workstream's phase is COMPLETED, FAILED or ROLLED_BACK it never
\* changes again.
C8_TerminalPhaseIsFinal ==
    [][\A i \in Ids : phase[i] \in TerminalPhase => phase'[i] = phase[i]]_vars

\* C9: the orchestration status moves along INITIALIZING -> SCHEDULING ->
\* EXECUTING <-> PAUSED -> {COMPLETED | FAILED | ROLLING_BACK -> FAILED}, in
\* which COMPLETED and FAILED have no successor: once the status is COMPLETED
\* or FAILED no step changes it.
C9_TerminalStatusIsFinal ==
    [][(status \in TerminalStatus) => (status' = status)]_vars

\* C10: after stop_orchestration has returned True, the orchestration's
\* status is FAILED and its resource-allocation table is empty in every
\* later state.
C10_StoppedStaysFailedAndEmpty ==
    stopped => /\ status = "failed"
               /\ \A r \in Rids : resource_allocations[r] = None

\* C11: after stop_orchestration has returned True no workstream that was
\* not yet admitted is admitted (none leaves phase SCHEDULED) and none is
\* granted a resource.
C11_StopHaltsAdmission ==
    [][stopped =>
          /\ \A i \in Ids : phase[i] = "scheduled" => phase'[i] = "scheduled"
          /\ \A r \in Rids : resource_allocations[r] = None
                                => resource_allocations'[r] = None]_vars

\* C12: while the orchestration status is PAUSED no workstream moves from
\* phase SCHEDULED to STARTING or RUNNING.
C12_PauseHaltsAdmission ==
    [][status = "paused" =>
          \A i \in Ids : phase[i] = "scheduled" => phase'[i] = "scheduled"]_vars

\* C13: a status of ROLLING_BACK is followed by FAILED and by nothing else.
C13_RollingBackEndsFailed ==
    [][status = "rolling_back" => status' \in {"rolling_back", "failed"}]_vars

\* C14: metrics.rollback_count is never reset: no step lowers it.
C14_RollbackCountKept ==
    [][metrics'.rollback_count >= metrics.rollback_count]_vars

\* C19: the step that finalizes a run in which no rollback and no stop
\* occurred sets the status to FAILED if every workstream has status FAILED
\* and to COMPLETED otherwise, partial failures included.
C19_FinalStatusByFailures ==
    [][(dpc = "finalize" /\ dpc' = "done" /\ ~stopped /\ metrics.rollback_count = 0) =>
          status' = IF \A i \in Ids : workstreams[i].status = "failed"
                    THEN "failed" ELSE "completed"]_vars

C19_Witness ==
    /\ dpc = "done"
    /\ ~stopped
    /\ metrics.rollback_count = 0
    /\ status = "completed"
    /\ \E i \in Ids : workstreams[i].status = "failed"
    /\ \E i \in Ids : workstreams[i].status = "completed"

\* the workstreams with status PENDING or IN_PROGRESS
ActiveItems == {i \in Ids : workstreams[i].status \in {"pending", "in_progress"}}

\* C20: once the driver thread of a started orchestration has ended and
\* every executor has returned, the status is COMPLETED or FAILED and no
\* workstream has status PENDING or IN_PROGRESS.
C20_EndsTerminalWithNoActiveItem ==
    (dpc = "done" /\ NoWorkerInFlight) =>
        /\ status \in TerminalStatus
        /\ ActiveItems = {}

\* the same for the runs in which neither stop_orchestration nor shutdown
\* was called
UndisturbedRunEndsWithNoActiveItem ==
    (dpc = "done" /\ NoWorkerInFlight /\ ~stopped /\ ~pool_shutdown) =>
        /\ status \in TerminalStatus
        /\ ActiveItems = {}

\* ======================================================================
\* Properties of the ResourceManager (specification SpecRM)
\* ======================================================================
\* C3: of two grants of one resource to different workstreams, neither of
\* them given back, none is exclusive.
C3_ExclusiveHasOneHolder ==
    \A g \in granted : \A h \in granted :
        (g.resource_id = h.resource_id /\ g.workstream_id # h.workstream_id)
            => (~g.is_exclusive /\ ~h.is_exclusive)

\* C23: release_resource(r, w) returns False and leaves the three tables as
\* they are whenever r has no entry in allocated_resources or its entry
\* names a workstream other than w.
C23_ReleaseByNonHolderRefused ==
    \A rid \in Rids : \A wid \in Ids :
        (\/ resource_manager.allocated_resources[rid] = None
         \/ resource_manager.allocated_resources[rid].workstream_id # wid)
            => release_resource(resource_manager, rid, wid)
                   = [ok |-> FALSE, rm |-> resource_manager]

\* a resource is allocated and another workstream waits for it
C23_Witness ==
    \E rid \in Rids :
        /\ resource_manager.allocated_resources[rid] # None
        /\ resource_manager.waiting_workstreams[rid] # <<>>
        /\ \E k \in 1..Len(resource_manager.waiting_workstreams[rid]) :
              resource_manager.waiting_workstreams[rid][k].workstream_id
                  # resource_manager.allocated_resources[rid].workstream_id

\* the grants of a resource that have not been given back
Holders(rid) == {g \in granted : g.resource_id = rid}

\* C25: allocate_resource(r, w, exclusive) returns True iff r has no holder,
\* or every holder of r is non-exclusive, the request is non-exclusive and
\* the number of holders is under r's capacity, if it has one; when it
\* returns False allocated_resources is unchanged and the request is appended
\* to r's wait queue.
C25_AllocateIffAvailable ==
    \A rid \in Rids : \A wid \in Ids : \A is_exclusive \in BOOLEAN :
        LET a   == allocate_resource(resource_manager, rid, wid, is_exclusive)
            cap == resource_manager.resource_capacity[rid]
        IN  /\ a.ok <=>
                  \/ Holders(rid) = {}
                  \/ /\ \A g \in Holders(rid) : ~g.is_exclusive
                     /\ ~is_exclusive
                     /\ cap # None => Cardinality(Holders(rid)) < cap.limit
            /\ ~a.ok =>
                  /\ a.rm.allocated_resources = resource_manager.allocated_resources
                  /\ a.rm.waiting_workstreams[rid] =
                         Append(resource_manager.waiting_workstreams[rid],
                                [workstream_id |-> wid,
                                 priority |-> DefaultQueuePriority])

\* ======================================================================
\* Properties of the WorktreeManager and its workers (SpecWorktree)
\* ======================================================================
\* C21: a workstream whose merge into the main branch failed never has
\* status COMPLETED or phase COMPLETED; when its worker has returned, its
\* status is FAILED and its phase is FAILED.
C21_MergeFailureFailsWorkstream ==
    \A w \in Ids :
        merge_success[w] = "false" =>
            /\ workstreams[w].status # "completed"
            /\ phase[w] # "completed"
            /\ wpc[w] = "done" => (workstreams[w].status = "failed" /\ phase[w] = "failed")

\* C22: cleanup_worktree for a workstream without an entry in
\* active_worktrees returns True and changes nothing, and after a
\* cleanup_worktree that returned True the workstream has no entry, so that
\* the next cleanup_worktree for it returns True as well.
C22_CleanupIdempotent ==
    /\ \A w \in Ids : \A git \in GitCleanup :
          w \notin active_worktrees =>
              cleanup_worktree(active_worktrees, w, git)
                  = [ok |-> TRUE, awt |-> active_worktrees]
    /\ \A w \in Ids : \A git \in GitCleanup : \A again \in GitCleanup :
          LET first == cleanup_worktree(active_worktrees, w, git)
          IN  first.ok => /\ w \notin first.awt
                          /\ cleanup_worktree(first.awt, w, again).ok

\* the last call was a cleanup_worktree that found an entry, removed it
\* and returned True
C22_Witness ==
    /\ returned # None
    /\ returned.op = "cleanup_worktree"
    /\ returned.had /\ returned.value
    /\ returned.workstream_id \notin active_worktrees

\* ======================================================================
\* Properties of the workstreams endpoints (specification SpecApi)
\* ======================================================================
\* what a request must do to a stored status: succeed from status from,
\* making it to, and otherwise answer with an error and change nothing
Transition(id, from, to) ==
    IF id \in DOMAIN workstreams_db /\ workstreams_db[id] = from
    THEN /\ returned'.code = HttpOk
         /\ workstreams_db' = [workstreams_db EXCEPT ![id] = to]
    ELSE /\ returned'.code \in {HttpBadRequest, HttpNotFound}
         /\ workstreams_db' = workstreams_db

Requires(ws, i, rid) ==
    \E k \in 1..Len(ws[i].required_resources) : ws[i].required_resources[k].rid = rid

RequiresExclusively(ws, i, rid) ==
    \E k \in 1..Len(ws[i].required_resources) :
        /\ ws[i].required_resources[k].rid = rid
        /\ ws[i].required_resources[k].excl

EntriesFor(rid) ==
    {k \in 1..Len(execution_plan.resource_conflicts) :
        execution_plan.resource_conflicts[k].resource_id = rid}

\* C15: for two workstreams that require the same resource, one of them at
\* least exclusively, the plan has exactly one conflict entry for the
\* resource and the entry lists both workstreams.
C15_OneConflictListingBoth ==
    started = "planned" =>
        \A rid \in Rids : \A i \in Ids : \A j \in Ids \ {i} :
            (/\ Requires(workstreams, i, rid)
             /\ Requires(workstreams, j, rid)
             /\ (RequiresExclusively(workstreams, i, rid)
                    \/ RequiresExclusively(workstreams, j, rid)))
            => /\ Cardinality(EntriesFor(rid)) = 1
               /\ \A k \in EntriesFor(rid) :
                     {i, j} \subseteq
                        Range(execution_plan.resource_conflicts[k].conflicting_workstreams)

\* the same for requests that hold two requirements on the resource in all,
\* one of each of the two workstreams
TwoUsersConflictListsBoth ==
    started = "planned" =>
        \A rid \in Rids : \A i \in Ids : \A j \in Ids \ {i} :
            (/\ {u \in Ids : Requires(workstreams, u, rid)} = {i, j}
             /\ Len(resource_usage(workstreams, rid)) = 2
             /\ (RequiresExclusively(workstreams, i, rid)
                    \/ RequiresExclusively(workstreams, j, rid)))
            => /\ Cardinality(EntriesFor(rid)) = 1
               /\ \A k \in EntriesFor(rid) :
                     {i, j} \subseteq
                        Range(execution_plan.resource_conflicts[k].conflicting_workstreams)

\* ======================================================================
\* Properties of contended runs (specification SpecContend)
\* ======================================================================
\* no worker has raised
NoExecutorFailure == \A i \in Ids : wpc[i] # "failing" /\ future[i] # "failed"

\* the workstream that _resolve_conflicts blocks when i and j are the two
\* workstreams that require a resource, both exclusively
Loser(i, j) ==
    CHOOSE l \in {i, j} :
        l # resolve_conflict(execution_plan.resource_conflicts[1], workstreams)[1]

TwoExclusiveUsers(i, j) ==
    /\ i # j
    /\ \E rid \in Rids :
          /\ {u \in Ids : Requires(workstreams, u, rid)} = {i, j}
          /\ RequiresExclusively(workstreams, i, rid)
          /\ RequiresExclusively(workstreams, j, rid)

\* C16: of two independent workstreams that both require the same resource
\* exclusively, the one the conflict resolver did not select has status
\* BLOCKED from the resolution on and is never admitted (its phase stays
\* SCHEDULED).
C16_LoserStaysBlocked ==
    \A i \in Ids : \A j \in Ids :
        (TwoExclusiveUsers(i, j) /\ dpc \notin {"none", "begin", "resolve"})
            => /\ workstreams[Loser(i, j)].status = "blocked"
               /\ phase[Loser(i, j)] = "scheduled"

\* C17: the run of the dependency chain (workstream i depends on workstream
\* i - 1) with max_concurrent_workstreams = 1, no executor failure and no
\* stop or shutdown ends with every workstream COMPLETED.
C17_ChainCompletes ==
    (/\ \A i \in Ids : workstreams[i].dependencies = ChainDependencies[i]
     /\ config.max_concurrent_workstreams = 1
     /\ NoExecutorFailure /\ ~stopped /\ ~pool_shutdown
     /\ dpc = "done")
        => \A i \in Ids : phase[i] = "completed" /\ workstreams[i].status = "completed"

\* the workstreams handed to an executor
Submitted == {i \in Ids : wpc[i] # "none"}

\* C18: a refused resource request is tried again after the holder's
\* release.  In a run without stop, shutdown or executor failure in which
\* fewer workstreams were admitted than max_concurrent_workstreams (so
\* that the concurrency limit refused nobody), every workstream without
\* dependencies that is not BLOCKED has been admitted when the driver ends.
C18_RefusedItemAdmittedLater ==
    (/\ dpc = "done" /\ ~stopped /\ ~pool_shutdown /\ NoExecutorFailure
     /\ Cardinality(Submitted) < config.max_concurrent_workstreams) =>
        \A i \in Ids :
            (workstreams[i].dependencies = {} /\ workstreams[i].status # "blocked")
                => i \in Submitted

\* ======================================================================
\* Properties of resolve_conflict (specification SpecResolve)
\* ======================================================================
\* C28: resolve_conflict selects, of the workstreams the conflict lists, one
\* with the lowest priority number under PRIORITY_BASED, the first listed
\* under FIFO, the last listed under LIFO and the first listed under
\* ROUND_ROBIN, on every call.
C28_StrategySelects ==
    (returned # None /\ returned.op = "resolve_conflict") =>
        LET l == returned.conflict.conflicting_workstreams
            v == returned.value
            s == returned.conflict.resolution_strategy
        IN  /\ s = "priority_based" =>
                  /\ Len(v) = 1 /\ v[1] \in Range(l)
                  /\ \A u \in Range(l) :
                        workstreams[v[1]].priority <= workstreams[u].priority
            /\ s = "fifo" => v = <<l[1]>>
            /\ s = "lifo" => v = <<l[Len(l)]>>
            /\ s = "round_robin" => v = <<l[1]>>

\* a LIFO conflict whose last listed workstream, selected, is not the first
\* listed and has not the lowest priority number
C28_Witness ==
    /\ returned # None
    /\ returned.op = "resolve_conflict"
    /\ returned.conflict.resolution_strategy = "lifo"
    /\ LET l == returned.conflict.conflicting_workstreams
       IN  /\ Len(l) >= 2 /\ l[1] # l[Len(l)]
           /\ returned.value = <<l[Len(l)]>>
           /\ workstreams[l[1]].priority < workstreams[l[Len(l)]].priority

\* ======================================================================
\* Properties of the order by priority (specification SpecPriority)
\* ======================================================================
\* the workstreams that _calculate_execution_order puts in its ready queue
\* before the first pop
ReadyAtStart == {i \in Ids : reverse_dependencies(workstreams)[i] = {}}

\* C27: of two workstreams that are ready together, the one with the lower
\* priority number comes earlier in execution_order.
C27_LowerNumberFirst ==
    (started = "planned" /\ ~execution_plan.raised) =>
        \A i \in ReadyAtStart : \A j \in ReadyAtStart :
            workstreams[i].priority < workstreams[j].priority
                => Index(execution_plan.execution_order, i)
                       < Index(execution_plan.execution_order, j)

\* ======================================================================
\* Properties of the runs with settings (specification SpecSettings)
\* ======================================================================
\* the admitted workstreams that require rid without exclusivity
SharedHolders(rid) ==
    {i \in Ids : /\ phase[i] \in Admitted
                 /\ Requires(workstreams, i, rid)
                 /\ ~RequiresExclusively(workstreams, i, rid)}

\* C26: a shared resource of a type with a limit never has more concurrent
\* holders than the limit (here max_database_connections, every resource
\* being a DATABASE).
C26_HoldersWithinLimit ==
    \A rid \in Rids : Cardinality(SharedHolders(rid)) <= config.max_database_connections

\* C29: _resolve_conflicts applies config.resource_conflict_strategy: with
\* LIFO, after the resolution of each conflict its last listed workstream is
\* not BLOCKED and the other listed workstreams are.
C29_ConfiguredStrategyApplied ==
    [][(dpc = "resolve" /\ dpc' = "visit" /\ config.resource_conflict_strategy = "lifo") =>
          \A k \in 1..Len(execution_plan.resource_conflicts) :
              LET l == execution_plan.resource_conflicts[k].conflicting_workstreams
              IN  \A i \in Range(l) :
                      workstreams'[i].status = "blocked" <=> i # l[Len(l)]]_vars

\* the request with the edges of type REQUIRES only
RequiresOnly(ws) ==
    [i \in Ids |-> [ws[i] EXCEPT !.dependencies =
                       {e \in @ : e.dependency_type = "requires"}]]

\* C30: an edge of type SHARES_RESOURCE or OPTIONAL causes no cycle error,
\* does not change the execution order and does not keep its source from
\* being admitted: the plan is the plan of the REQUIRES edges, and at the end
\* of a run without stop, shutdown or executor failure every workstream
\* without a REQUIRES edge and without requirements has been admitted.
C30_OnlyRequiresEdgesGate ==
    /\ started = "raised" => build_execution_plan(RequiresOnly(workstreams), iter).raised
    /\ started = "ok" =>
          execution_plan.execution_order
              = build_execution_plan(RequiresOnly(workstreams), iter).execution_order
    /\ (dpc = "done" /\ ~stopped /\ ~pool_shutdown /\ NoExecutorFailure) =>
          \A i \in Ids :
              (/\ RequiresOnly(workstreams)[i].dependencies = {}
               /\ workstreams[i].required_resources = <<>>)
                  => i \in Submitted

\* ======================================================================
\* Properties of build_execution_plan (specification SpecPlan)
\* ======================================================================
\* C4: for a cycle-free request build_execution_plan returns an order that
\* holds each workstream after the target of each of its dependency edges.
C4_OrderRespectsDependencies ==
    (started = "planned" /\ ~HasCycle(workstreams)) =>
        /\ ~execution_plan.raised
        /\ \A i \in Ids : \A e \in workstreams[i].dependencies :
              e.tgt \in Ids =>
                 LET order == execution_plan.execution_order
                 IN  /\ i \in Range(order)
                     /\ e.tgt \in Range(order)
                     /\ Index(order, e.tgt) < Index(order, i)

\* a reported cycle: a closed walk along edges of the request's graph that
\* repeats no workstream but its first as its last
IsCycleOf(c, ws) ==
    /\ Len(c) >= 2
    /\ c[1] = c[Len(c)]
    /\ \A k \in 1..(Len(c) - 1) : <<c[k], c[k + 1]>> \in GraphEdges(ws)
    /\ \A j \in 1..(Len(c) - 1) : \A k \in 1..(Len(c) - 1) : c[j] = c[k] => j = k

\* C5: for a request whose dependency edges close a cycle
\* build_execution_plan raises, and each cycle it reports is a cycle of the
\* request's dependency graph.
C5_CycleRaisesAndIsReported ==
    (started = "planned" /\ HasCycle(workstreams)) =>
        /\ execution_plan.raised
        /\ execution_plan.cycles # <<>>
        /\ \A k \in 1..Len(execution_plan.cycles) :
              IsCycleOf(execution_plan.cycles[k], workstreams)

C5_Witness ==
    /\ started = "planned"
    /\ HasCycle(workstreams)
    /\ execution_plan.raised
    /\ \E k \in 1..Len(execution_plan.cycles) : Len(execution_plan.cycles[k]) = 3
    /\ \E i \in Ids : \E e \in workstreams[i].dependencies :
          \A k \in 1..Len(execution_plan.cycles) :
              i \notin Range(execution_plan.cycles[k])

\* ======================================================================
\* Properties of the plan's estimates (specification SpecEstimate)
\* ======================================================================
\* the dependency chains of a request: the sequences of distinct
\* workstreams in which each depends on the next
Chains(ws) ==
    {c \in SeqsUpTo(Ids, MaxItems) :
        /\ Len(c) >= 1
        /\ \A j \in 1..Len(c) : \A k \in 1..Len(c) : c[j] = c[k] => j = k
        /\ \A k \in 1..(Len(c) - 1) : <<c[k], c[k + 1]>> \in GraphEdges(ws)}

CriticalPath(ws) == Max({SumMinutes(ws, Range(c)) : c \in Chains(ws)})

\* C31: for a cycle-free request the plan's estimated_duration is the
\* largest sum of estimated durations (None counting as 0) over the
\* dependency chains of the request.
C31_EstimateIsCriticalPath ==
    (started = "planned" /\ ~HasCycle(workstreams)) =>
        /\ returned # None
        /\ returned.estimated_duration = CriticalPath(workstreams)

\* a workstream that depends on two others of different durations: the
\* estimate is its own duration plus the longer of the two
C31_Witness ==
    /\ started = "planned"
    /\ returned # None
    /\ \E i \in Ids : \E j \in Ids \ {i} : \E k \in Ids \ {i, j} :
          /\ {<<i, j>>, <<i, k>>} \subseteq GraphEdges(workstreams)
          /\ workstreams[i].estimated_duration # None
          /\ Minutes(workstreams[j].estimated_duration)
                < Minutes(workstreams[k].estimated_duration)
          /\ returned.estimated_duration
                = Minutes(workstreams[i].estimated_duration)
                  + Minutes(workstreams[k].estimated_duration)

\* a resource both workstreams require, one of them at least exclusively
ExclusiveInCommon(ws, i, j) ==
    \E rid \in Rids :
        /\ Requires(ws, i, rid)
        /\ Requires(ws, j, rid)
        /\ (RequiresExclusively(ws, i, rid) \/ RequiresExclusively(ws, j, rid))

DependsTransitively(ws, i, j) == <<i, j>> \in Closure(GraphEdges(ws), MaxItems)

\* C32: parallelization_opportunities holds the pair of two workstreams
\* exactly when neither depends on the other, directly or through other
\* workstreams, and they have no common resource that one of them requires
\* exclusively.
C32_PairsAreTheIndependentOnes ==
    (started = "planned" /\ returned # None) =>
        \A i \in Ids : \A j \in Ids :
            i < j =>
               (<<i, j>> \in Range(returned.parallelization_opportunities)
                <=> /\ ~DependsTransitively(workstreams, i, j)
                    /\ ~DependsTransitively(workstreams, j, i)
                    /\ ~ExclusiveInCommon(workstreams, i, j))

\* the same with direct dependency edges only
PairsAreTheUnlinkedOnes ==
    (started = "planned" /\ returned # None) =>
        \A i \in Ids : \A j \in Ids :
            i < j =>
               (<<i, j>> \in Range(returned.parallelization_opportunities)
                <=> /\ <<i, j>> \notin GraphEdges(workstreams)
                    /\ <<j, i>> \notin GraphEdges(workstreams)
                    /\ ~ExclusiveInCommon(workstreams, i, j))

\* ======================================================================
\* Properties of the rollback (specification Spec)
\* ======================================================================
\* C33: once the status is ROLLING_BACK no workstream is admitted any more:
\* none moves from phase SCHEDULED to STARTING or RUNNING and none is
\* granted a resource.
C33_RollbackHaltsAdmission ==
    [][status = "rolling_back" =>
          /\ \A i \in Ids : phase[i] = "scheduled" => phase'[i] \notin Admitted
          /\ \A r \in Rids : resource_allocations[r] = None
                                => resource_allocations'[r] = None]_vars

\* ======================================================================
\* Properties of the rollback threshold (specification SpecThreshold)
\* ======================================================================
\* no workstream has failed: none is FAILED by status or phase and no
\* execution has returned or is returning a failure
NothingFailed ==
    \A i \in Ids : /\ workstreams[i].status # "failed"
                   /\ phase[i] # "failed"
                   /\ future[i] # "failed"
                   /\ wpc[i] # "failing"

\* C34: a driver poll in a run in which no workstream has failed does not
\* move the run to ROLLING_BACK, whatever the rollback_threshold.
C34_NoRollbackWithoutFailure ==
    [][(NothingFailed /\ ~stopped /\ status # "rolling_back")
          => status' # "rolling_back"]_vars

\* the same for thresholds greater than 0
PositiveThresholdNeedsFailure ==
    [][(NothingFailed /\ ~stopped /\ status # "rolling_back"
           /\ config.rollback_threshold > 0)
          => status' # "rolling_back"]_vars

\* ======================================================================
\* Properties of pause, resume and stop (specification SpecControl)
\* ======================================================================
\* the state of the orchestration and of its tables
OrchestrationState ==
    <<workstreams, status, phase, resource_allocations, resource_manager,
      metrics, errors, active, stopped>>

\* C35: pause returns True and sets PAUSED only from EXECUTING or
\* SCHEDULING, resume returns True and sets EXECUTING only from PAUSED,
\* each of pause, resume and stop returns False for an unknown id, and a
\* call that returns False changes nothing of the orchestration.
C35_ControlCallsGuarded ==
    [][\A id \in OrchestrationIds :
          /\ CallPause(id) =>
                /\ returned'.value =>
                      (status \in {"executing", "scheduling"} /\ status' = "paused")
                /\ (Known(id) /\ status \in {"executing", "scheduling"})
                      => returned'.value
          /\ CallResume(id) =>
                /\ returned'.value => (status = "paused" /\ status' = "executing")
                /\ (Known(id) /\ status = "paused") => returned'.value
          /\ (CallPause(id) \/ CallResume(id) \/ CallStop(id)) =>
                /\ ~Known(id) => ~returned'.value
                /\ ~returned'.value => UNCHANGED OrchestrationState]_vars

\* a pause refused on a run that has ended, and a stop refused for an
\* unknown id while the run holds the resource
C35_Witness ==
    /\ returned # None
    /\ \/ /\ returned.op = "pause_orchestration"
          /\ returned.orchestration_id = RunId
          /\ ~returned.value
          /\ active
          /\ status = "completed"
       \/ /\ returned.op = "stop_orchestration"
          /\ returned.orchestration_id # RunId
          /\ ~returned.value
          /\ active
          /\ resource_allocations[1] # None

\* ======================================================================
\* Properties of the acquisition of resources (specification SpecAcquire)
\* ======================================================================
\* the driver's visit of wid ends with _allocate_resources returning False
Refused(wid) ==
    /\ DriverVisit
    /\ idx <= Len(execution_plan.execution_order)
    /\ wid = execution_plan.execution_order[idx]
    /\ _can_start_workstream(wid, workstreams, completed_workstreams)
    /\ ~_allocate_resources(wid, workstreams, resource_allocations,
                            resource_manager).ok

\* C36: when _allocate_resources returns False for a workstream, neither
\* table holds an entry of the workstream any more and the workstream is
\* not started.
C36_RefusedHoldsNothing ==
    [][\A wid \in Ids :
          Refused(wid) =>
             /\ \A r \in Rids :
                   /\ resource_allocations'[r] # None
                         => resource_allocations'[r].workstream_id # wid
                   /\ resource_manager'.allocated_resources[r] # None
                         => resource_manager'.allocated_resources[r].workstream_id # wid
             /\ phase'[wid] = "scheduled"
             /\ wpc'[wid] = "none"
             /\ dpc' = "visit"]_vars

\* workstream 2 was granted the free resource shared, then refused it
\* exclusive, and the driver has gone on
C36_Witness ==
    /\ dpc = "visit"
    /\ idx = 3
    /\ ~stopped
    /\ workstreams[1].required_resources = <<>>
    /\ workstreams[2].required_resources =
          <<[rid |-> 1, excl |-> FALSE], [rid |-> 1, excl |-> TRUE]>>
    /\ phase[2] = "scheduled"
    /\ HeldBy(2) = {}

\* ======================================================================
\* Properties of shared holders (specification SpecContend)
\* ======================================================================
\* the workstreams that were admitted with a shared requirement on rid and
\* are still being executed
RunningSharers(rid) ==
    {i \in Ids : /\ Requires(workstreams, i, rid)
                 /\ ~RequiresExclusively(workstreams, i, rid)
                 /\ phase[i] \in Admitted}

\* C37: a shared holder stays recorded until it releases itself: while a
\* workstream admitted with a shared requirement is still running, the
\* resource is not granted exclusively to another workstream.
C37_SharedHolderKeepsOut ==
    (~stopped /\ ~pool_shutdown) =>
        \A rid \in Rids :
            (/\ resource_manager.allocated_resources[rid] # None
             /\ resource_manager.allocated_resources[rid].is_exclusive)
            => RunningSharers(rid)
                  \subseteq {resource_manager.allocated_resources[rid].workstream_id}

\* ======================================================================
\* Properties of the unlocked tables (specification SpecRace)
\* ======================================================================
\* C38: stop_orchestration and the driver never get in each other's way
\* on the allocation tables: each entry is deleted once, no call raises
\* and no error is recorded on the orchestration.
C38_TableAccessesExclusive ==
    /\ frames.caller.pc # "raised"
    /\ errors = 0

\* ======================================================================
\* Properties of the worker's cleanup (specification SpecWorktree)
\* ======================================================================
\* C39: the worker removes a workstream's worktree and branch only after
\* its merge into the main branch has succeeded.
C39_RemovedOnlyAfterMerge ==
    [][\A w \in Ids : \A git \in GitCleanup :
          (/\ AgentCleanup(w, git)
           /\ w \in active_worktrees
           /\ w \notin active_worktrees')
          => merge_success[w] = "true"]_vars

\* ======================================================================
\* Properties of the execution order (specification SpecPlan)
\* ======================================================================
\* C40: for a cycle-free request execution_order lists every workstream of
\* the request exactly once, also when dependency edges name workstreams
\* that are not in the request.
C40_OrderIsPermutation ==
    (started = "planned" /\ ~HasCycle(workstreams)) =>
        /\ ~execution_plan.raised
        /\ Len(execution_plan.execution_order) = MaxItems
        /\ Range(execution_plan.execution_order) = Ids

\* a planned request with an edge to an unknown workstream and an edge
\* between two workstreams of the request
C40_Witness ==
    /\ started = "planned"
    /\ ~HasCycle(workstreams)
    /\ \E e \in AllEdges(workstreams) : e.tgt = Ghost
    /\ GraphEdges(workstreams) # {}
    /\ Len(execution_plan.execution_order) = MaxItems

====
